---- MODULE Spec2Model ----
(***************************************************************************)
(* Model of lazy_match_reading: the article store (database.py), the       *)
(* verification stage and match pipeline (llm_processor.py), the vector    *)
(* filter (embedding_matcher.py) and the notification dispatchers          *)
(* (notifications.py, telegram_bot.py).                                    *)
(*                                                                         *)
(* Text is modelled as a sequence of tokens (single characters for digits  *)
(* and punctuation, whole words otherwise), so that formatting and parsing *)
(* are computed, not assumed.  Scores are integers in thousandths          *)
(* (0.704 is 704); times are integer clock ticks.                          *)
(***************************************************************************)
EXTENDS Integers, Sequences, FiniteSets, TLC

VARIABLES
    articles,        \* table articles, in insertion order
    matches,         \* table matches, in insertion order
    seqArticles,     \* sqlite_sequence of articles (AUTOINCREMENT)
    seqMatches,      \* sqlite_sequence of matches
    clock,           \* wall clock (UTC), in ticks
    last,            \* the last operation: its arguments and its result
    verification,    \* one _verify_with_llm call: its arguments and its result
    pipeline,        \* one process_articles run: its position and what it yielded
    notifier,        \* NotificationManager: checkpoint and the scan in progress
    deliveries,      \* per url, the messages the channel accepted for it
    tz               \* local time minus UTC, in ticks

store == <<articles, matches, seqArticles, seqMatches>>

vars == <<articles, matches, seqArticles, seqMatches, clock, last, verification,
          pipeline, notifier, deliveries, tz>>

(***************************************************************************)
(* Bounds of the model.                                                    *)
(***************************************************************************)
MaxStoreOps == 3

MaxDocs == 2

MaxCommands == 2

(***************************************************************************)
(* Python values.                                                          *)
(***************************************************************************)
None == -1

Urls == {"u1", "u2"}

\* no operation made yet, no call made yet
NoOp == [op |-> "none"]

NoCall == [phase |-> "none"]

\* no process_articles run started
NoRun == [pos |-> 0, yielded |-> <<>>]

Range(s) == {s[i] : i \in DOMAIN s}

(***************************************************************************)
(* Text: str.split, str.strip, float(), int(), the format spec ".2f".      *)
(***************************************************************************)
DigitChars == <<"0", "1", "2", "3", "4", "5", "6", "7", "8", "9">>

Digits == Range(DigitChars)

DigitVal(c) == (CHOOSE i \in 1..10 : DigitChars[i] = c) - 1

\* the first position of token tok in text s, 0 when absent
IndexOf(s, tok) ==
    IF \E i \in DOMAIN s : s[i] = tok
    THEN CHOOSE i \in DOMAIN s : s[i] = tok /\ \A j \in 1..(i - 1) : s[j] # tok
    ELSE 0

\* s.split(tok): the list of pieces
RECURSIVE Split(_, _)
Split(s, tok) ==
    LET i == IndexOf(s, tok)
    IN  IF i = 0 THEN <<s>>
        ELSE <<SubSeq(s, 1, i - 1)>> \o Split(SubSeq(s, i + 1, Len(s)), tok)

\* s.strip(): leading and trailing blanks removed
RECURSIVE Strip(_)
Strip(s) ==
    IF s = <<>> THEN s
    ELSE IF Head(s) = " " THEN Strip(Tail(s))
    ELSE IF s[Len(s)] = " " THEN Strip(SubSeq(s, 1, Len(s) - 1))
    ELSE s

\* the value of a run of digit characters
RECURSIVE DigitsValue(_)
DigitsValue(s) ==
    IF s = <<>> THEN 0
    ELSE DigitsValue(SubSeq(s, 1, Len(s) - 1)) * 10 + DigitVal(s[Len(s)])

AllDigits(s) == s # <<>> /\ \A i \in DOMAIN s : s[i] \in Digits

\* float(text) is defined on [-]digits[.digits] (blanks around it ignored);
\* anything else raises ValueError
FloatOk(text) ==
    LET t == Strip(text)
        u == IF t # <<>> /\ Head(t) = "-" THEN Tail(t) ELSE t
        parts == Split(u, ".")
    IN  \/ Len(parts) = 1 /\ AllDigits(parts[1])
        \/ /\ Len(parts) = 2
           /\ parts[1] = <<>> \/ AllDigits(parts[1])
           /\ parts[2] = <<>> \/ AllDigits(parts[2])
           /\ parts[1] # <<>> \/ parts[2] # <<>>
           /\ Len(parts[2]) <= 3

\* float(text), in thousandths
FloatVal(text) ==
    LET t == Strip(text)
        neg == t # <<>> /\ Head(t) = "-"
        u == IF neg THEN Tail(t) ELSE t
        parts == Split(u, ".")
        frac == IF Len(parts) = 2 THEN parts[2] ELSE <<>>
        scale == CASE Len(frac) = 0 -> 1000
                   [] Len(frac) = 1 -> 100
                   [] Len(frac) = 2 -> 10
                   [] OTHER -> 1
        mag == DigitsValue(parts[1]) * 1000 + DigitsValue(frac) * scale
    IN  IF neg THEN 0 - mag ELSE mag

\* f"{score:.1f}": one decimal only
Format1f(score) ==
    LET t == (score + 50) \div 100
    IN  <<DigitChars[(t \div 10) + 1], ".", DigitChars[(t % 10) + 1]>>

\* f"{score:.2f}" for 0 <= score < 10: rounded to hundredths
Format2f(score) ==
    LET h == (score + 5) \div 10
    IN  <<DigitChars[(h \div 100) + 1], ".",
          DigitChars[((h \div 10) % 10) + 1], DigitChars[(h % 10) + 1]>>

\* a relevance text as process_article writes it
Relevance(score) ==
    <<"Verified match (", "similarity: ">> \o Format2f(score) \o <<")">>

\* match['relevance'].split('similarity: ')[1].split(')')[0] raises IndexError
\* when the text holds no 'similarity: '
ScoreTextOk(relevance) == Len(Split(relevance, "similarity: ")) >= 2

ScoreText(relevance) == Split(Split(relevance, "similarity: ")[2], ")")[1]

\* float(match['relevance'].split('similarity: ')[1].split(')')[0]) does not raise
ScoreParses(relevance) == ScoreTextOk(relevance) /\ FloatOk(ScoreText(relevance))

ParsedScore(relevance) == FloatVal(ScoreText(relevance))

(***************************************************************************)
(* database.py: the store.                                                 *)
(***************************************************************************)
UrlExists(url) == \E i \in DOMAIN articles : articles[i].url = url

IdOfUrl(url) == (CHOOSE i \in DOMAIN articles : articles[i].url = url)

\* the row INSERT OR IGNORE writes; both timestamps read the local clock
NewArticleRow(article, id, now) ==
    [id |-> id, title |-> article.title, url |-> article.url,
     source |-> article.source, content |-> article.content,
     date |-> article.date, created_at |-> now, verified_at |-> now,
     sent_to_telegram |-> 0, telegram_sent_at |-> None]

\* cursor.lastrowid after the INSERT OR IGNORE, on the call's fresh
\* connection: the new rowid, or sqlite3_last_insert_rowid() = 0 when the
\* insert was ignored (the attribute is None only before any INSERT ran)
LastRowId(inserted, newId) == IF inserted THEN newId ELSE 0

\* article_id as save_article computes it from cursor.lastrowid
ArticleIdOf(lastrowid, url) ==
    IF lastrowid = None THEN articles[IdOfUrl(url)].id ELSE lastrowid

\* the rows of the matches loop, all of the call's matches
RECURSIVE MatchRows(_, _, _)
MatchRows(ms, articleId, firstId) ==
    IF ms = <<>> THEN <<>>
    ELSE <<[id |-> firstId, article_id |-> articleId,
            question |-> Head(ms).question,
            similarity_score |-> ParsedScore(Head(ms).relevance),
            llm_response |-> Head(ms).llm_response,
            match_type |-> Head(ms).type]>>
         \o MatchRows(Tail(ms), articleId, firstId + 1)

\* the first match of the call whose insert raises, 0 when none does
FirstFailing(ms) ==
    IF \E i \in DOMAIN ms : ~ScoreParses(ms[i].relevance)
    THEN CHOOSE i \in DOMAIN ms :
            /\ ~ScoreParses(ms[i].relevance)
            /\ \A j \in 1..(i - 1) : ScoreParses(ms[j].relevance)
    ELSE 0

\* a plain INSERT into a table whose url is not UNIQUE
ArticlesAfterInsertPlain(article, newId, now) ==
    Append(articles, NewArticleRow(article, newId, now))

\* INSERT OR REPLACE: the stored row gives way to the new one
ArticlesAfterInsertReplace(article, newId, now) ==
    IF UrlExists(article.url)
    THEN [i \in DOMAIN articles |->
            IF articles[i].url = article.url
            THEN NewArticleRow(article, newId, now) ELSE articles[i]]
    ELSE Append(articles, NewArticleRow(article, newId, now))

\* the articles table after the INSERT OR IGNORE: url is UNIQUE, so a row
\* whose url is stored already is dropped and the stored row is kept
ArticlesAfterInsert(article, newId, now) ==
    IF UrlExists(article.url) THEN articles
    ELSE Append(articles, NewArticleRow(article, newId, now))

\* the store inside the call's transaction, once the article and the first
\* `done` matches of the call are inserted
StoreAfter(article, now, done) ==
    LET inserted == ~UrlExists(article.url)
        newId == seqArticles + 1
        articleId == ArticleIdOf(LastRowId(inserted, newId), article.url)
        rows == MatchRows(SubSeq(article.matches, 1, done), articleId, seqMatches + 1)
    IN  [articles |-> ArticlesAfterInsert(article, newId, now),
         matches |-> matches \o rows,
         seqArticles |-> newId,
         seqMatches |-> seqMatches + Len(rows)]

\* a connection that commits what was written before the exception
AfterRaiseNoRollback(article, now, done) == StoreAfter(article, now, done)

\* what the connection's context manager leaves in the store when the
\* block raised after `done` matches were inserted: it rolls back
AfterRaise(article, now, done) ==
    [articles |-> articles, matches |-> matches,
     seqArticles |-> seqArticles, seqMatches |-> seqMatches]

\* save_article: the store afterwards, whether it raised, and its result
SaveOutcome(article, now) ==
    LET inserted == ~UrlExists(article.url)
        fail == FirstFailing(article.matches)
    IN  IF fail # 0
        THEN [raised |-> TRUE, id |-> None,
              db |-> AfterRaise(article, now, fail - 1)]
        ELSE [raised |-> FALSE,
              id |-> ArticleIdOf(LastRowId(inserted, seqArticles + 1), article.url),
              db |-> StoreAfter(article, now, Len(article.matches))]

\* the match rows of one article, as the accessors select them
MatchesOf(articleId) == SelectSeq(matches, LAMBDA m : m.article_id = articleId)

\* the relevance text get_article_by_url / get_all_articles rebuild
RelevanceByUrl(score) ==
    <<"Verified match (", "similarity: ">> \o Format2f(score) \o <<")">>

\* get_article_by_url: None, or the article with its matches (no id)
GetArticleByUrl(url) ==
    IF ~UrlExists(url) THEN <<>>
    ELSE LET a == articles[IdOfUrl(url)]
             ms == MatchesOf(a.id)
         IN  <<[title |-> a.title, url |-> a.url, source |-> a.source,
                content |-> a.content, date |-> a.date,
                created_at |-> a.created_at, verified_at |-> a.verified_at,
                matches |-> [i \in DOMAIN ms |->
                               [question |-> ms[i].question,
                                relevance |-> RelevanceByUrl(ms[i].similarity_score),
                                llm_response |-> ms[i].llm_response]]]>>

\* mark_article_sent_to_telegram: the UPDATE matches on id alone
MarkOutcome(articleId, now) ==
    [articles |-> [i \in DOMAIN articles |->
                     IF articles[i].id = articleId
                     THEN [articles[i] EXCEPT !.sent_to_telegram = 1,
                                              !.telegram_sent_at = now]
                     ELSE articles[i]],
     result |-> \E i \in DOMAIN articles : articles[i].id = articleId]

(***************************************************************************)
(* llm_processor.py: _verify_with_llm.                                     *)
(***************************************************************************)
RetryCount == 3

RateLimitWait == 60

ErrorWait == 5

LlmTypes == {"ollama", "gemini"}

\* line[0].isdigit()
StartsWithDigit(line) == line # <<>> /\ Head(line) \in Digits

\* str.lower() on the words of a response
Lower(text) ==
    [i \in DOMAIN text |->
       CASE text[i] \in {"Yes", "YES"} -> "yes"
         [] text[i] \in {"No", "NO"} -> "no"
         [] OTHER -> text[i]]

\* line.split('.', 1)
SplitOnce(line, tok) ==
    LET i == IndexOf(line, tok)
    IN  IF i = 0 THEN <<line>>
        ELSE <<SubSeq(line, 1, i - 1), SubSeq(line, i + 1, Len(line))>>

\* the answers dict after one more line of the response
AnswersAfterLine(questions, answers, rawLine) ==
    LET line == Strip(rawLine)
        parts == SplitOnce(line, ".")
    IN  IF line = <<>> \/ ~StartsWithDigit(line) THEN answers
        ELSE IF Len(parts) # 2 THEN answers
        ELSE IF ~AllDigits(Strip(parts[1])) THEN answers     \* int() raises ValueError
        ELSE LET q_num == DigitsValue(Strip(parts[1])) - 1
                 answer == Lower(Strip(parts[2]))
             IN  IF 0 <= q_num /\ q_num < Len(questions)
                 THEN [q \in DOMAIN answers \cup {questions[q_num + 1]} |->
                         IF q = questions[q_num + 1] THEN answer ELSE answers[q]]
                 ELSE answers

\* the answers dict of a whole response, its lines taken in order
RECURSIVE ParseAnswers(_, _, _)
ParseAnswers(questions, answers, lines) ==
    IF lines = <<>> THEN answers
    ELSE ParseAnswers(questions, AnswersAfterLine(questions, answers, Head(lines)),
                      Tail(lines))

\* answers.get(q, 'no')
AnswerOf(answers, q) == IF q \in DOMAIN answers THEN answers[q] ELSE <<"no">>

\* a result list that holds one entry per key of the answers dict
ResultsFromAnswers(questions, answers) ==
    LET qs == SelectSeq(questions, LAMBDA q : q \in DOMAIN answers)
    IN  [i \in DOMAIN qs |->
           [question |-> qs[i], is_relevant |-> answers[qs[i]] = <<"yes">>,
            llm_response |-> answers[qs[i]]]]

\* the result list of a parsed response: one entry per question, in order
Results(questions, answers) ==
    [i \in DOMAIN questions |->
       [question |-> questions[i],
        is_relevant |-> AnswerOf(answers, questions[i]) = <<"yes">>,
        llm_response |-> AnswerOf(answers, questions[i])]]

\* a result list that reports a failed verification as a plain 'no'
ErrorResultsNoMarker(questions, error_msg) ==
    [i \in DOMAIN questions |->
       [question |-> questions[i], is_relevant |-> FALSE, llm_response |-> <<"no">>]]

\* the result list when every attempt failed
ErrorResults(questions, error_msg) ==
    [i \in DOMAIN questions |->
       [question |-> questions[i], is_relevant |-> FALSE,
        llm_response |-> <<"Error: ", error_msg>>]]

\* str(last_exception) for a failed attempt of each kind
ExceptionText(kind) ==
    CASE kind = "rate" -> "429 quota exceeded"
      [] kind = "exhausted" -> "resource exhausted"
      [] OTHER -> "request failed"

\* handlers that give up at the first failed attempt
AfterFailureGivesUp(llm, kind, attempt, retry_count) ==
    [wait |-> 0, again |-> FALSE, raises |-> FALSE]

\* handlers that let the exception of the last attempt leave the function
AfterFailureReraise(llm, kind, attempt, retry_count) ==
    IF attempt = retry_count - 1
    THEN [wait |-> 0, again |-> FALSE, raises |-> TRUE]
    ELSE [wait |-> ErrorWait, again |-> TRUE, raises |-> FALSE]

\* the handlers around the request, for an attempt that raised `kind`:
\* the wait they make, whether the loop goes on to another attempt, and
\* whether the exception leaves the function (`except Exception` of the
\* attempt catches whatever the request and the parse raise).
\* "rate" is HTTP 429 (ollama) or ResourceExhausted naming the quota
\* (gemini); "exhausted" is any other ResourceExhausted; "error" any other
\* exception.
AfterFailure(llm, kind, attempt, retry_count) ==
    LET lastAttempt == attempt = retry_count - 1
        \* the handler of the request itself sleeps and continues
        inner == IF kind = "rate" /\ attempt < retry_count - 1
                 THEN RateLimitWait
                 ELSE IF llm = "gemini" /\ kind = "error" /\ attempt < retry_count - 1
                      THEN ErrorWait
                      ELSE 0
        \* otherwise it re-raises into `except Exception` of the attempt
        outer == IF lastAttempt THEN 0 ELSE ErrorWait
    IN  IF inner # 0 THEN [wait |-> inner, again |-> TRUE, raises |-> FALSE]
        ELSE [wait |-> outer, again |-> ~lastAttempt, raises |-> FALSE]

\* the for loop over the attempts, from `attempt` on; provider[a + 1] is what
\* the provider does at attempt a
RECURSIVE VerifyLoop(_, _, _, _, _, _)
VerifyLoop(llm, questions, provider, retry_count, attempt, acc) ==
    IF attempt >= retry_count
    THEN [results |-> ErrorResults(questions, acc.last_exception),
          requests |-> acc.requests, waits |-> acc.waits, failed |-> TRUE,
          raised |-> FALSE]
    ELSE LET reply == provider[attempt + 1]
             requests == acc.requests + 1
         IN  IF reply.kind = "ok"
             THEN [results |-> Results(questions,
                                       ParseAnswers(questions, <<>>, reply.text)),
                   requests |-> requests, waits |-> acc.waits, failed |-> FALSE,
                   raised |-> FALSE]
             ELSE LET h == AfterFailure(llm, reply.kind, attempt, retry_count)
                      next == [requests |-> requests,
                               waits |-> IF h.wait = 0 THEN acc.waits
                                         ELSE Append(acc.waits, h.wait),
                               last_exception |-> ExceptionText(reply.kind)]
                  IN  IF h.again
                      THEN VerifyLoop(llm, questions, provider, retry_count,
                                      attempt + 1, next)
                      ELSE IF h.raises
                      THEN [results |-> <<>>, requests |-> requests,
                            waits |-> next.waits, failed |-> TRUE, raised |-> TRUE]
                      ELSE [results |-> ErrorResults(questions, next.last_exception),
                            requests |-> requests, waits |-> next.waits,
                            failed |-> TRUE, raised |-> FALSE]

\* a verification that asks the provider about each question on its own
VerifyEachCandidate(llm, article, questions, provider, retry_count) ==
    LET One(i) == VerifyLoop(llm, <<questions[i]>>, provider, retry_count, 0,
                             [requests |-> 0, waits |-> <<>>,
                              last_exception |-> "Unknown error"])
    IN  [results |-> [i \in DOMAIN questions |-> One(i).results[1]],
         requests |-> IF questions = <<>> THEN 0
                      ELSE Len(questions) * One(1).requests,
         waits |-> <<>>,
         failed |-> questions # <<>> /\ One(1).failed,
         raised |-> FALSE]

\* the prompt, built before the attempts' try: article['title'] and
\* article['content'][:2000] raise KeyError for a missing key
PromptBuilds(article) == {"title", "content"} \subseteq DOMAIN article

\* _verify_with_llm(article, questions, retry_count): its result list, the
\* provider requests it made, the waits it made, and whether it raised
VerifyWithLlm(llm, article, questions, provider, retry_count) ==
    IF questions = <<>>
    THEN [results |-> <<>>, requests |-> 0, waits |-> <<>>, failed |-> FALSE,
          raised |-> FALSE]
    ELSE IF ~PromptBuilds(article)
    THEN [results |-> <<>>, requests |-> 0, waits |-> <<>>, failed |-> TRUE,
          raised |-> TRUE]
    ELSE VerifyLoop(llm, questions, provider, retry_count, 0,
                    [requests |-> 0, waits |-> <<>>,
                     last_exception |-> "Unknown error"])

(***************************************************************************)
(* embedding_matcher.py: find_similar.                                     *)
(***************************************************************************)
EmbeddingSimilarityThreshold == 700

TopK == 5

\* np.argsort(similarities[0]): the orders of the indices that are ascending
\* in score; numpy's default sort is not stable, so equal scores may come in
\* either order
ArgSorts(scores) ==
    {p \in Permutations(DOMAIN scores) :
        \A i, j \in DOMAIN scores : i < j => scores[p[i]] <= scores[p[j]]}

\* order[-top_k:][::-1]
TopIndices(order, top_k) ==
    LET n == Len(order)
        k == IF top_k < n THEN top_k ELSE n
    IN  [i \in 1..k |-> order[n + 1 - i]]

\* a filter that lets the threshold itself through
FindSimilarAtLeast(order, scores, texts, top_k) ==
    LET top == TopIndices(order, top_k)
        kept == SelectSeq(top, LAMBDA idx : scores[idx] >= EmbeddingSimilarityThreshold)
    IN  [i \in DOMAIN kept |-> [text |-> texts[kept[i]], score |-> scores[kept[i]]]]

\* find_similar(query, texts, top_k), given the scores of the texts and the
\* order argsort put them in
FindSimilar(order, scores, texts, top_k) ==
    LET top == TopIndices(order, top_k)
        kept == SelectSeq(top, LAMBDA idx : scores[idx] > EmbeddingSimilarityThreshold)
    IN  [i \in DOMAIN kept |-> [text |-> texts[kept[i]], score |-> scores[kept[i]]]]

(***************************************************************************)
(* llm_processor.py: process_article, process_articles.                    *)
(***************************************************************************)
\* zip(similar_matches, verifications) with the entries judged relevant kept
RECURSIVE VerifiedMatches(_, _)
VerifiedMatches(similar, verifications) ==
    IF similar = <<>> \/ verifications = <<>> THEN <<>>
    ELSE (IF Head(verifications).is_relevant
          THEN <<[question |-> Head(similar).text,
                  relevance |-> Relevance(Head(similar).score),
                  llm_response |-> Head(verifications).llm_response,
                  type |-> "match"]>>
          ELSE <<>>)
         \o VerifiedMatches(Tail(similar), Tail(verifications))

\* a pipeline that saves every document it processed
SavesArticleAlways(verified_matches) == TRUE

\* `if verified_matches:` before db.save_article
SavesArticle(verified_matches) == verified_matches # <<>>

\* a handler that returns the document with its matches although it raised
ReturnedMatchesKept(verified_matches, raised) == verified_matches

\* the matches of the dict process_article returns: the verified matches, or
\* none when the body raised
ReturnedMatches(verified_matches, raised) ==
    IF raised THEN <<>> ELSE verified_matches

\* process_article(article): questions are the lines _get_questions read,
\* scoreOf the similarity of the article's content to each of them, order
\* the argsort of these, provider what the model's provider does, and
\* storeRaises whether the store refuses the write (sqlite3.Error)
ProcessArticle(article, questions, scoreOf, order, llm, provider, storeRaises, now) ==
    LET scores == [i \in DOMAIN questions |-> scoreOf[questions[i]]]
        similar == IF questions = <<>> THEN <<>>
                   ELSE FindSimilar(order, scores, questions, TopK)
        call == VerifyWithLlm(llm, article, [i \in DOMAIN similar |-> similar[i].text],
                              provider, RetryCount)
        verified == IF similar # <<>> /\ ~call.raised
                    THEN VerifiedMatches(similar, call.results) ELSE <<>>
        processed == article @@ [matches |-> verified]
        saves == SavesArticle(verified)
        save == SaveOutcome(processed, now)
        raised == \/ similar # <<>> /\ call.raised
                  \/ saves /\ (storeRaises \/ save.raised)
    IN  [similar |-> similar,
         verdicts |-> [i \in DOMAIN call.results |-> call.results[i].is_relevant],
         requests |-> IF similar # <<>> THEN call.requests ELSE 0,
         saved |-> saves /\ ~raised,
         calls |-> IF similar # <<>> THEN 1 ELSE 0,
         raised |-> raised,
         matches |-> ReturnedMatches(verified, raised),
         db |-> IF saves /\ ~raised THEN save.db
                ELSE [articles |-> articles, matches |-> matches,
                      seqArticles |-> seqArticles, seqMatches |-> seqMatches]]

\* `if processed_article["matches"]:` before the yield
Yields(processed_matches) == processed_matches # <<>>

(***************************************************************************)
(* database.py: the accessors the dispatchers read.                        *)
(***************************************************************************)
\* ORDER BY verified_at DESC
RECURSIVE ByVerifiedAtDesc(_)
ByVerifiedAtDesc(rows) ==
    IF rows = <<>> THEN <<>>
    ELSE LET i == CHOOSE i \in DOMAIN rows :
                     \A j \in DOMAIN rows :
                        \/ rows[j].verified_at < rows[i].verified_at
                        \/ rows[j].verified_at = rows[i].verified_at /\ i <= j
             rest == [k \in 1..(Len(rows) - 1) |-> IF k < i THEN rows[k] ELSE rows[k + 1]]
         IN  <<rows[i]>> \o ByVerifiedAtDesc(rest)

\* LIMIT ?
Limit(rows, limit) == SubSeq(rows, 1, IF Len(rows) < limit THEN Len(rows) ELSE limit)

\* the relevance text get_recent_articles, get_unsent_telegram_articles and
\* get_articles_by_timeframe rebuild
RelevanceByType(match_type, score) ==
    <<"Verified ", match_type, " match (", "similarity: ">>
        \o Format2f(score) \o <<")">>

MatchDicts(articleId) ==
    LET ms == MatchesOf(articleId)
    IN  [i \in DOMAIN ms |->
           [question |-> ms[i].question,
            relevance |-> RelevanceByType(ms[i].match_type, ms[i].similarity_score),
            llm_response |-> ms[i].llm_response,
            type |-> ms[i].match_type]]

\* get_recent_articles(limit): no id in the dicts
GetRecentArticles(limit) ==
    LET rows == Limit(ByVerifiedAtDesc(articles), limit)
    IN  [i \in DOMAIN rows |->
           [title |-> rows[i].title, url |-> rows[i].url, source |-> rows[i].source,
            content |-> rows[i].content, date |-> rows[i].date,
            created_at |-> rows[i].created_at, verified_at |-> rows[i].verified_at,
            matches |-> MatchDicts(rows[i].id)]]

\* a query without the WHERE sent_to_telegram = 0
GetArticlesWhateverFlag(limit) ==
    LET rows == Limit(ByVerifiedAtDesc(articles), limit)
    IN  [i \in DOMAIN rows |->
           [id |-> rows[i].id,
            title |-> rows[i].title, url |-> rows[i].url, source |-> rows[i].source,
            content |-> rows[i].content, date |-> rows[i].date,
            created_at |-> rows[i].created_at, verified_at |-> rows[i].verified_at,
            matches |-> MatchDicts(rows[i].id)]]

\* get_unsent_telegram_articles(limit)
GetUnsentTelegramArticles(limit) ==
    LET unsent == SelectSeq(articles, LAMBDA a : a.sent_to_telegram = 0)
        rows == Limit(ByVerifiedAtDesc(unsent), limit)
    IN  [i \in DOMAIN rows |->
           [id |-> rows[i].id,
            title |-> rows[i].title, url |-> rows[i].url, source |-> rows[i].source,
            content |-> rows[i].content, date |-> rows[i].date,
            created_at |-> rows[i].created_at, verified_at |-> rows[i].verified_at,
            matches |-> MatchDicts(rows[i].id)]]

TimeframeLimit == 30

\* get_articles_by_timeframe(start_date, end_date, limit): created_at BETWEEN
\* the two dates, newest verified first
GetArticlesByTimeframe(start_date, end_date, limit) ==
    LET within == SelectSeq(articles,
                      LAMBDA a : start_date <= a.created_at /\ a.created_at <= end_date)
        rows == Limit(ByVerifiedAtDesc(within), limit)
    IN  [i \in DOMAIN rows |->
           [id |-> rows[i].id,
            title |-> rows[i].title, url |-> rows[i].url, source |-> rows[i].source,
            content |-> rows[i].content, date |-> rows[i].date,
            created_at |-> rows[i].created_at, verified_at |-> rows[i].verified_at,
            sent_to_telegram |-> rows[i].sent_to_telegram,
            telegram_sent_at |-> rows[i].telegram_sent_at,
            matches |-> MatchDicts(rows[i].id)]]

(***************************************************************************)
(* notifications.py: NotificationManager.                                  *)
(***************************************************************************)
TelegramNotificationThreshold == 700

InitialLookback == 5

RecentLimit == 100

\* the entries get_new_articles appends for one article: one per match whose
\* score parses and meets the threshold
RECURSIVE EntriesOf(_, _)
EntriesOf(article, ms) ==
    IF ms = <<>> THEN <<>>
    ELSE (IF /\ ScoreParses(Head(ms).relevance)
             /\ ParsedScore(Head(ms).relevance) >= TelegramNotificationThreshold
          THEN <<[url |-> article.url, question |-> Head(ms).question,
                  similarity_score |-> ParsedScore(Head(ms).relevance)]>>
          ELSE <<>>)
         \o EntriesOf(article, Tail(ms))

\* get_new_articles(): created_at (local time) against last_check_time (UTC)
RECURSIVE NewEntries(_, _)
NewEntries(recent, last_check_time) ==
    IF recent = <<>> THEN <<>>
    ELSE (IF Head(recent).created_at > last_check_time
          THEN EntriesOf(Head(recent), Head(recent).matches)
          ELSE <<>>)
         \o NewEntries(Tail(recent), last_check_time)

GetNewArticles(last_check_time) ==
    NewEntries(GetRecentArticles(RecentLimit), last_check_time)

\* for parse_mode in ["html", None]
ParseModes == <<"html", "None">>

\* send_telegram_message(message): replies[i] is the channel's answer to the
\* i-th request ("ok", "400", "500", or "raise" for a transport exception);
\* whether the message was accepted and the requests made
RECURSIVE SendFrom(_, _)
SendFrom(i, replies) ==
    IF i > Len(ParseModes) THEN [ok |-> FALSE, requests |-> i - 1]
    ELSE IF replies[i] = "ok" THEN [ok |-> TRUE, requests |-> i]
    ELSE IF replies[i] = "400" /\ ParseModes[i] = "HTML" THEN SendFrom(i + 1, replies)
    ELSE [ok |-> FALSE, requests |-> i]

SendTelegramMessage(replies) == SendFrom(1, replies)

(***************************************************************************)
(* telegram_bot.py: TelegramBot.                                           *)
(***************************************************************************)
UnsentLimit == 5

\* the articles recent_command sends a message for: those with matches
WithMatches(unsent) == SelectSeq(unsent, LAMBDA a : a.matches # <<>>)

\* the articles table after mark_article_sent_to_telegram on each of `rows`
RECURSIVE MarkAll(_, _, _)
MarkAll(table, rows, now) ==
    IF rows = <<>> THEN table
    ELSE MarkAll([i \in DOMAIN table |->
                    IF table[i].id = Head(rows).id
                    THEN [table[i] EXCEPT !.sent_to_telegram = 1,
                                          !.telegram_sent_at = now]
                    ELSE table[i]],
                 Tail(rows), now)

\* a /recent that marks the fetched articles whether or not its sends went
\* through
RecentCommandMarksAnyway(raises, now) ==
    LET unsent == GetUnsentTelegramArticles(UnsentLimit)
        toSend == WithMatches(unsent)
        sentCount == IF raises = 0 \/ raises > Len(toSend) THEN Len(toSend)
                     ELSE raises - 1
    IN  [sent |-> [i \in 1..sentCount |-> toSend[i].url],
         qualifying |-> Len(toSend),
         attempted |-> IF raises = 0 \/ raises > Len(toSend) THEN Len(toSend)
                       ELSE raises,
         marked |-> unsent # <<>>,
         articles |-> MarkAll(articles, unsent, now)]

\* recent_command: `raises` is the reply_text call that raises TelegramError
\* (0: none; i: the message of the i-th article; one more: the closing
\* summary).  The urls whose message was sent, and the articles table.
RecentCommand(raises, now) ==
    LET unsent == GetUnsentTelegramArticles(UnsentLimit)
        toSend == WithMatches(unsent)
        sentCount == IF raises = 0 \/ raises > Len(toSend) THEN Len(toSend)
                     ELSE raises - 1
    IN  [sent |-> [i \in 1..sentCount |-> toSend[i].url],
         qualifying |-> Len(toSend),
         attempted |-> IF raises = 0 \/ raises > Len(toSend) THEN Len(toSend)
                       ELSE raises,
         marked |-> raises = 0 /\ unsent # <<>>,
         articles |-> IF raises = 0 THEN MarkAll(articles, unsent, now) ELSE articles]

\* send_article_notification: the id it looks up in get_article_by_url's dict
NotificationArticleId(url) ==
    LET got == GetArticleByUrl(url)
    IN  IF got # <<>> /\ "id" \in DOMAIN got[1] THEN got[1].id ELSE None

\* send_article_notification(article, similarity_score): whether a message
\* was sent, and the articles table
SendArticleNotification(url, similarity_score, chatId, channelOk, now) ==
    LET article_id == NotificationArticleId(url)
    IN  IF similarity_score < TelegramNotificationThreshold \/ article_id = None
        THEN [sent |-> FALSE, articles |-> articles]
        ELSE IF chatId /\ ~channelOk
        THEN [sent |-> FALSE, articles |-> articles]
        ELSE [sent |-> chatId, articles |-> MarkOutcome(article_id, now).articles]

(***************************************************************************)
(* The initial state: an empty store, no run and no scan started, the      *)
(* checkpoint as NotificationManager.__init__ sets it.                     *)
(***************************************************************************)
EmptyStore ==
    /\ articles = <<>>
    /\ matches = <<>>
    /\ seqArticles = 0
    /\ seqMatches = 0

IdleNotifier ==
    [last_check_time |-> 0 - InitialLookback, pc |-> "idle", queue |-> <<>>,
     commands |-> 0, failed |-> {}]

Idle ==
    /\ clock = 0
    /\ last = NoOp
    /\ pipeline = NoRun
    /\ notifier = IdleNotifier
    /\ deliveries = [u \in Urls |-> 0]

(***************************************************************************)
(* Inputs of _verify_with_llm.                                             *)
(***************************************************************************)
Line(n, word) == <<DigitChars[n + 1], ".", " ", word>>

\* provider responses: complete, partial, empty, with commentary and an
\* index out of range, and with a reason after the answer
Responses ==
    {<<Line(1, "yes"), Line(2, "no"), Line(3, "Yes")>>,
     <<Line(1, "yes") \o <<",", " ", "because">>, Line(2, "no")>>,
     <<Line(1, "no"), Line(2, "YES")>>,
     <<Line(2, "yes")>>,
     <<>>,
     <<<<"Here", " ", "you", " ", "go">>, Line(1, "yes"), Line(7, "yes")>>}

Replies ==
    {[kind |-> "ok", text |-> r] : r \in Responses}
        \cup {[kind |-> k, text |-> <<>>] : k \in {"rate", "exhausted", "error"}}

\* what the provider does at each of the attempts
Providers == [1..RetryCount -> Replies]

\* the documents the fetcher hands over: a title and a content that may be
\* empty (_get_article_content returns "" when the extraction fails)
VerifyArticles == {[title |-> "title1", content |-> c] : c \in {"text1", ""}}

QuestionLists ==
    {<<>>, <<"qa">>, <<"qa", "qb">>, <<"qa", "qa">>, <<"qa", "qb", "qc">>}

(***************************************************************************)
(* The verification stage on its own: one call of _verify_with_llm with    *)
(* any questions and any provider behaviour.                               *)
(***************************************************************************)
InitVerify ==
    /\ EmptyStore
    /\ Idle
    /\ tz = 0
    /\ verification \in
         {[phase |-> "called", llm |-> l, article |-> a, questions |-> qs,
           provider |-> p]
            : l \in LlmTypes, a \in VerifyArticles, qs \in QuestionLists,
              p \in Providers}

VerifyReturns ==
    /\ verification.phase = "called"
    /\ verification' =
         [verification EXCEPT !.phase = "returned"] @@
         [out |-> VerifyWithLlm(verification.llm, verification.article,
                                verification.questions,
                                verification.provider, RetryCount)]
    /\ UNCHANGED <<store, clock, last, pipeline, notifier, deliveries, tz>>

NextVerify == VerifyReturns

SpecVerify == InitVerify /\ [][NextVerify]_vars

(***************************************************************************)
(* Inputs of the store operations.                                         *)
(***************************************************************************)
Versions == {1, 2}

\* two documents per url, differing in every column but the url
Document(url, v) ==
    [url |-> url,
     title |-> IF v = 1 THEN "title1" ELSE "title2",
     source |-> IF v = 1 THEN "hacker-news" ELSE "techcrunch",
     content |-> IF v = 1 THEN "text1" ELSE "text2",
     date |-> IF v = 1 THEN "2024-01-01" ELSE "2024-01-02"]

MatchA ==
    [question |-> "qa", relevance |-> Relevance(904),
     llm_response |-> <<"yes">>, type |-> "match"]

MatchB ==
    [question |-> "qb", relevance |-> Relevance(650),
     llm_response |-> <<"yes">>, type |-> "match"]

\* relevance texts save_article cannot parse: no 'similarity: ' (IndexError),
\* and a score that is no number (ValueError)
BadMatchIndex ==
    [question |-> "qa", relevance |-> <<"Verified match">>,
     llm_response |-> <<"yes">>, type |-> "match"]

BadMatchValue ==
    [question |-> "qb", relevance |-> <<"(", "similarity: ", "n", "/", "a", ")">>,
     llm_response |-> <<"yes">>, type |-> "match"]

MatchLists ==
    {<<>>, <<MatchA>>, <<MatchB, MatchA>>, <<BadMatchIndex>>, <<MatchA, BadMatchValue>>}

StoreIds == 0..2

(***************************************************************************)
(* The store on its own: save_article and mark_article_sent_to_telegram    *)
(* called with any of the inputs above.                                    *)
(***************************************************************************)
InitStore ==
    /\ EmptyStore
    /\ Idle
    /\ tz = 0
    /\ verification = NoCall

DbSaveArticle ==
    /\ clock < MaxStoreOps
    /\ \E url \in Urls, v \in Versions, ms \in MatchLists :
         LET article == Document(url, v) @@ [matches |-> ms]
         IN  \E out \in {SaveOutcome(article, clock)} :
                /\ articles' = out.db.articles
                /\ matches' = out.db.matches
                /\ seqArticles' = out.db.seqArticles
                /\ seqMatches' = out.db.seqMatches
                /\ last' = [op |-> "save", article |-> article,
                            existed |-> UrlExists(url),
                            raised |-> out.raised, id |-> out.id]
    /\ clock' = clock + 1
    /\ UNCHANGED <<verification, pipeline, notifier, deliveries, tz>>

DbMarkSent ==
    /\ clock < MaxStoreOps
    /\ \E id \in StoreIds :
         LET out == MarkOutcome(id, clock)
         IN  /\ articles' = out.articles
             /\ last' = [op |-> "mark", id |-> id, result |-> out.result]
    /\ clock' = clock + 1
    /\ UNCHANGED <<matches, seqArticles, seqMatches, verification,
                   pipeline, notifier, deliveries, tz>>

\* the read accessors (SELECT only): get_unsent_telegram_articles,
\* get_recent_articles, get_article_by_url
DbRead ==
    /\ last.op # "read"
    /\ \E url \in Urls :
         last' = [op |-> "read",
                  unsent |-> Len(GetUnsentTelegramArticles(UnsentLimit)),
                  recent |-> Len(GetRecentArticles(RecentLimit)),
                  found |-> GetArticleByUrl(url) # <<>>]
    /\ UNCHANGED <<store, clock, verification, pipeline, notifier, deliveries, tz>>

NextStore == DbSaveArticle \/ DbMarkSent \/ DbRead

SpecStore == InitStore /\ [][NextStore]_vars

(***************************************************************************)
(* Inputs of the pipeline and of the dispatchers.                          *)
(***************************************************************************)
QueryTexts == {"qa", "qb"}

\* similarity scores around the threshold 0.7: below it, above it but
\* formatted as 0.70, well above it
ScoreValues == {650, 704, 904}

\* the lines _get_questions reads: none, two queries, one query given twice
PipelineQuestions == {<<>>, <<"qa", "qb">>, <<"qa", "qa">>}

FailingProvider == [a \in 1..RetryCount |-> [kind |-> "error", text |-> <<>>]]

Answering(text) == [a \in 1..RetryCount |-> [kind |-> "ok", text |-> text]]

\* the provider answers yes to both, to one, to none; fails every attempt;
\* or is rate limited once and then answers
PipelineProviders ==
    {Answering(<<Line(1, "yes"), Line(2, "yes")>>),
     Answering(<<Line(1, "no"), Line(2, "Yes")>>),
     Answering(<<Line(1, "no"), Line(2, "no")>>),
     FailingProvider,
     [Answering(<<Line(1, "yes")>>) EXCEPT ![1] = [kind |-> "rate", text |-> <<>>]]}

\* config.LLM_TYPE outside Streamlit
ConfiguredLlm == "ollama"

ChannelReplies == {"ok", "400", "raise"}

TzOffsets == {0}

(***************************************************************************)
(* The match pipeline: one run of process_articles over MaxDocs documents. *)
(***************************************************************************)
\* the generator processes its next document and yields it or not
ProcessNext(versions, questionLists, scoreValues, providers, llms, storeFaults) ==
    /\ pipeline.pos < MaxDocs
    /\ \E url \in Urls, v \in versions, questions \in questionLists,
          provider \in providers, llm \in llms, storeRaises \in storeFaults :
         \E scoreOf \in [Range(questions) -> scoreValues] :
            \E order \in ArgSorts([i \in DOMAIN questions |-> scoreOf[questions[i]]]) :
               \E out \in {ProcessArticle(Document(url, v), questions, scoreOf, order,
                                          llm, provider, storeRaises, clock + tz)} :
                  /\ articles' = out.db.articles
                  /\ matches' = out.db.matches
                  /\ seqArticles' = out.db.seqArticles
                  /\ seqMatches' = out.db.seqMatches
                  /\ pipeline' = [pos |-> pipeline.pos + 1,
                                  yielded |-> IF Yields(out.matches)
                                              THEN Append(pipeline.yielded, url)
                                              ELSE pipeline.yielded]
                  /\ last' = [op |-> "process", url |-> url,
                              similar |-> out.similar, verdicts |-> out.verdicts,
                              saved |-> out.saved, raised |-> out.raised,
                              provider |-> provider, calls |-> out.calls,
                              requests |-> out.requests,
                              yielded |-> Yields(out.matches)]
    /\ clock' = clock + 1
    /\ UNCHANGED <<verification, notifier, deliveries, tz>>

InitPipeline ==
    /\ EmptyStore
    /\ Idle
    /\ tz \in TzOffsets
    /\ verification = NoCall

ProcessDocument ==
    ProcessNext({1}, PipelineQuestions, ScoreValues, PipelineProviders,
                {ConfiguredLlm}, {FALSE})

NextPipeline == ProcessDocument

SpecPipeline == InitPipeline /\ [][NextPipeline]_vars

\* the same run against a store that may refuse a write
ProcessDocumentFaulty ==
    ProcessNext({1}, PipelineQuestions, ScoreValues, PipelineProviders,
                {ConfiguredLlm}, BOOLEAN)

NextFaulty == ProcessDocumentFaulty

SpecFaulty == InitPipeline /\ [][NextFaulty]_vars

(***************************************************************************)
(* The system: the pipeline run interleaved with the dispatchers.  A scan   *)
(* of check_and_notify awaits each send, so other work runs between its    *)
(* sends; recent_command and send_article_notification are taken whole.    *)
(***************************************************************************)
\* the queries and providers of the system's pipeline run: one query or two,
\* each scored above both thresholds, and a provider that answers yes to
\* every candidate, so that a document is stored with one match or with two
\* (the other outcomes of the matcher and the verifier are SpecPipeline's)
SystemQuestions == {<<"qa">>, <<"qa", "qb">>}

SystemScores == {904}

SystemProviders == {Answering(<<Line(1, "yes"), Line(2, "yes")>>)}

\* the channel's answers to the requests of one send_telegram_message call
ReplySeqs == [DOMAIN ParseModes -> ChannelReplies]

\* deliveries after a message for each of `urls` was accepted
RECURSIVE Delivered(_, _)
Delivered(counts, urls) ==
    IF urls = <<>> THEN counts
    ELSE Delivered([counts EXCEPT ![Head(urls)] = @ + 1], Tail(urls))

Init == InitPipeline

ProcessStep ==
    ProcessNext({1}, SystemQuestions, SystemScores, SystemProviders,
                {ConfiguredLlm}, {FALSE})

\* check_and_notify up to its loop: new_articles = self.get_new_articles()
ScanStart ==
    /\ notifier.pc = "idle"
    /\ notifier.commands < MaxCommands
    /\ notifier' = [notifier EXCEPT !.pc = "sending",
                                    !.queue = GetNewArticles(notifier.last_check_time),
                                    !.failed = {}]
    /\ last' = [op |-> "scan", found |-> Len(notifier'.queue)]
    /\ UNCHANGED <<store, clock, verification, pipeline, deliveries, tz>>

\* one turn of the loop: await self.send_telegram_message(message), its
\* result dropped; notifier.failed keeps the urls whose send the scan under
\* way (or the last one) logged as failed
ScanSendWith(replySeqs) ==
    /\ notifier.pc = "sending"
    /\ notifier.queue # <<>>
    /\ \E replies \in replySeqs :
          \E out \in {SendTelegramMessage(replies)} :
             /\ deliveries' = IF out.ok
                              THEN Delivered(deliveries, <<Head(notifier.queue).url>>)
                              ELSE deliveries
             /\ last' = [op |-> "send", url |-> Head(notifier.queue).url,
                         ok |-> out.ok, requests |-> out.requests]
             /\ notifier' = [notifier EXCEPT
                                !.queue = Tail(@),
                                !.failed = IF out.ok THEN @
                                           ELSE @ \cup {Head(notifier.queue).url}]
    /\ UNCHANGED <<store, clock, verification, pipeline, tz>>

ScanSend == ScanSendWith(ReplySeqs)

\* a checkpoint that stays where it was when a send of the scan failed
CheckpointIfSent(scan, now) ==
    IF scan.failed = {} THEN now ELSE scan.last_check_time

\* self.last_check_time = datetime.utcnow(), whatever the scan's sends did
CheckpointAfter(scan, now) == now

\* after the loop: self.last_check_time = datetime.utcnow()
ScanFinish ==
    /\ notifier.pc = "sending"
    /\ notifier.queue = <<>>
    /\ notifier' = [notifier EXCEPT !.pc = "idle",
                                    !.last_check_time = CheckpointAfter(notifier, clock),
                                    !.commands = @ + 1]
    /\ last' = [op |-> "checked", at |-> clock]
    /\ clock' = clock + 1
    /\ UNCHANGED <<store, verification, pipeline, deliveries, tz>>

\* the /recent command
Recent ==
    /\ notifier.commands < MaxCommands
    /\ \E raises \in 0..(Len(WithMatches(GetUnsentTelegramArticles(UnsentLimit))) + 1) :
          \E out \in {RecentCommand(raises, clock + tz)} :
             /\ articles' = out.articles
             /\ deliveries' = Delivered(deliveries, out.sent)
             /\ last' = [op |-> "recent", sent |-> out.sent, marked |-> out.marked,
                         qualifying |-> out.qualifying, attempted |-> out.attempted,
                         raises |-> raises]
    /\ notifier' = [notifier EXCEPT !.commands = @ + 1]
    /\ UNCHANGED <<matches, seqArticles, seqMatches, clock, verification, pipeline, tz>>

\* send_article_notification for a stored article and one of its scores
NotifyOf(scores) ==
    /\ notifier.commands < MaxCommands
    /\ \E url \in Urls, score \in scores, chatId \in BOOLEAN, channelOk \in BOOLEAN :
          /\ UrlExists(url)
          /\ \E out \in {SendArticleNotification(url, score, chatId, channelOk, clock + tz)} :
                /\ articles' = out.articles
                /\ deliveries' = IF out.sent THEN Delivered(deliveries, <<url>>)
                                 ELSE deliveries
                /\ last' = [op |-> "notify", url |-> url, sent |-> out.sent]
    /\ notifier' = [notifier EXCEPT !.commands = @ + 1]
    /\ UNCHANGED <<matches, seqArticles, seqMatches, clock, verification, pipeline, tz>>

Notify == NotifyOf(SystemScores)

Next ==
    \/ ProcessStep
    \/ ScanStart
    \/ ScanSend
    \/ ScanFinish
    \/ Recent
    \/ Notify

Spec == Init /\ [][Next]_vars

(***************************************************************************)
(* The dispatchers over a store filled through save_article with matches   *)
(* of any score: articles.db outlives the setting of                       *)
(* EMBEDDING_SIMILARITY_THRESHOLD it was filled under, and the delivery     *)
(* threshold is a setting of its own.                                      *)
(***************************************************************************)
\* the matches of a stored article: below the delivery threshold, above it,
\* or one of each
StoredMatchLists == {<<MatchB>>, <<MatchA>>, <<MatchA, MatchB>>}

StoreArticle ==
    /\ pipeline.pos < MaxDocs
    /\ \E url \in Urls, ms \in StoredMatchLists :
         LET article == Document(url, 1) @@ [matches |-> ms]
         IN  \E out \in {SaveOutcome(article, clock + tz)} :
                /\ articles' = out.db.articles
                /\ matches' = out.db.matches
                /\ seqArticles' = out.db.seqArticles
                /\ seqMatches' = out.db.seqMatches
                /\ last' = [op |-> "save", article |-> article,
                            existed |-> UrlExists(url),
                            raised |-> out.raised, id |-> out.id]
    /\ pipeline' = [pipeline EXCEPT !.pos = @ + 1]
    /\ clock' = clock + 1
    /\ UNCHANGED <<verification, notifier, deliveries, tz>>

NotifyStored == NotifyOf(ScoreValues)

NextDispatch ==
    \/ StoreArticle
    \/ ScanStart
    \/ ScanSend
    \/ ScanFinish
    \/ Recent
    \/ NotifyStored

SpecDispatch == Init /\ [][NextDispatch]_vars

(***************************************************************************)
(* The similarity stage on its own: one call of find_similar with any      *)
(* scores, any order argsort may give them, and any top_k.                 *)
(***************************************************************************)
\* up to three queries
RankTexts == {<<"qa">>, <<"qa", "qb">>, <<"qa", "qb", "qc">>}

\* scores below, at and above the threshold
RankScores == ScoreValues \cup {EmbeddingSimilarityThreshold}

\* top_k below, at and above the number of queries
RankTopKs == {1, 2, TopK}

InitRank ==
    /\ EmptyStore
    /\ clock = 0
    /\ tz = 0
    /\ verification = NoCall
    /\ pipeline = NoRun
    /\ notifier = IdleNotifier
    /\ deliveries = [u \in Urls |-> 0]
    /\ \E texts \in RankTexts, top_k \in RankTopKs :
          \E scores \in [DOMAIN texts -> RankScores] :
             \E order \in ArgSorts(scores) :
                last = [op |-> "rank", texts |-> texts, scores |-> scores,
                        order |-> order, top_k |-> top_k]

FindSimilarReturns ==
    /\ last.op = "rank"
    /\ last' = [last EXCEPT !.op = "ranked"] @@
                [out |-> FindSimilar(last.order, last.scores, last.texts, last.top_k)]
    /\ UNCHANGED <<store, clock, verification, pipeline, notifier, deliveries, tz>>

NextRank == FindSimilarReturns

SpecRank == InitRank /\ [][NextRank]_vars

(***************************************************************************)
(* Claims about the store, checked under SpecStore.                        *)
(***************************************************************************)
SaveDone == last.op = "save" /\ ~last.raised

RowsOfUrl(table, url) == {i \in DOMAIN table : table[i].url = url}

\* the match rows the last save_article call inserted
InsertedRows ==
    SubSeq(matches, Len(matches) - Len(last.article.matches) + 1, Len(matches))

\* C3: a save_article call that returns leaves exactly one article row for
\* its url and at most one for any url; when the url was stored already the
\* call adds its match rows and no article row.
Thm_C3_OneRowPerUrl ==
    [][(last'.op = "save" /\ ~last'.raised) =>
         /\ Cardinality(RowsOfUrl(articles', last'.article.url)) = 1
         /\ \A u \in Urls :
              Cardinality(RowsOfUrl(articles', u)) =
                 IF u = last'.article.url \/ UrlExists(u) THEN 1 ELSE 0
         /\ last'.existed =>
              /\ Len(articles') = Len(articles)
              /\ Len(matches') = Len(matches) + Len(last'.article.matches)]_vars

\* three calls for one url, each with matches: one article row, all matches
Wit_C3 ==
    /\ SaveDone /\ last.existed
    /\ clock = 3 /\ Len(articles) = 1 /\ Len(matches) >= 3

\* C4 (as claimed): a save_article call for a stored url returns the id of
\* the stored row, gives that id to every match row it inserts, and its
\* matches come back from get_article_by_url.
Cex_C4_ReusesExistingId ==
    (SaveDone /\ last.existed) =>
        LET row == articles[IdOfUrl(last.article.url)]
            got == GetArticleByUrl(last.article.url)[1].matches
        IN  /\ last.id = row.id
            /\ \A i \in DOMAIN InsertedRows : InsertedRows[i].article_id = row.id
            /\ \A i \in DOMAIN last.article.matches :
                 \E j \in DOMAIN got :
                    got[j].question = last.article.matches[i].question

\* C5: a save_article call leaves every stored article row as it was, in
\* every column, whatever the title, source, content and date it is given.
Thm_C5_FirstWriteWins ==
    [][last'.op = "save" =>
         \A i \in DOMAIN articles :
            i \in DOMAIN articles' /\ articles'[i] = articles[i]]_vars

\* a second call for a stored url with another title, source, content, date
Wit_C5 ==
    /\ SaveDone /\ last.existed
    /\ LET row == articles[IdOfUrl(last.article.url)]
       IN  /\ row.title # last.article.title
           /\ row.source # last.article.source
           /\ row.content # last.article.content
           /\ row.date # last.article.date

\* C6: a save_article call that raises leaves both tables as they were; one
\* that returns leaves the article row and a match row for each of its
\* matches, in order.
Thm_C6_AtomicSave ==
    [][last'.op = "save" =>
         IF last'.raised
         THEN articles' = articles /\ matches' = matches
         ELSE /\ RowsOfUrl(articles', last'.article.url) # {}
              /\ Len(matches') = Len(matches) + Len(last'.article.matches)
              /\ \A i \in DOMAIN last'.article.matches :
                   LET m == matches'[Len(matches) + i]
                   IN  /\ m.question = last'.article.matches[i].question
                       /\ m.similarity_score =
                            ParsedScore(last'.article.matches[i].relevance)]_vars

\* the call for a new url raised at its second match, after the article and
\* its first match were inserted
Wit_C6 ==
    /\ last.op = "save" /\ last.raised /\ ~last.existed
    /\ FirstFailing(last.article.matches) = 2
    /\ ~UrlExists(last.article.url)

(***************************************************************************)
(* Claims about _verify_with_llm, checked under SpecVerify.                *)
(***************************************************************************)
Returned == verification.phase = "returned"

AllAttemptsFail ==
    \A a \in 1..RetryCount : verification.provider[a].kind # "ok"

IsErrorMarker(text) == text # <<>> /\ Head(text) = "Error: "

\* C9: the result list of _verify_with_llm has one entry per question, and
\* its i-th entry names the i-th question, whatever the provider did.
Thm_C9_OneResultPerQuery ==
    Returned =>
        /\ Len(verification.out.results) = Len(verification.questions)
        /\ \A i \in DOMAIN verification.questions :
             verification.out.results[i].question = verification.questions[i]

\* three questions, answered by a response that names only one of them
Wit_C9 ==
    /\ Returned
    /\ Len(verification.questions) = 3
    /\ verification.provider[1].kind = "ok"
    /\ Len(verification.provider[1].text) = 1
    /\ Len(verification.out.results) = 3

\* C10: when every attempt fails, _verify_with_llm makes at most retry_count
\* requests and every entry of its result is not relevant and carries an
\* error marker.
Thm_C10_ExhaustedRetries ==
    (Returned /\ AllAttemptsFail /\ verification.questions # <<>>) =>
        /\ verification.out.requests <= RetryCount
        /\ verification.out.requests >= 1
        /\ \A i \in DOMAIN verification.questions :
             /\ ~verification.out.results[i].is_relevant
             /\ IsErrorMarker(verification.out.results[i].llm_response)

\* a rate limit, then another error, then a rate limit again, two questions
Wit_C10 ==
    /\ Returned
    /\ Len(verification.questions) = 2
    /\ verification.provider[1].kind = "rate"
    /\ verification.provider[2].kind = "error"
    /\ verification.provider[3].kind = "rate"
    /\ verification.out.requests = 3

(***************************************************************************)
(* Claims about the match pipeline, checked under SpecPipeline and         *)
(* SpecFaulty.                                                             *)
(***************************************************************************)
Processed == last.op = "process"

\* the candidates of the last document that the verifier judged relevant
Relevant(op) == {i \in DOMAIN op.similar : op.verdicts[i]}

\* C2 (as claimed): the match rows a process_article call persists for its
\* document are exactly its verified candidates: every candidate scored
\* above the threshold, and a candidate has a row of this call, attached to
\* the document's article row, if and only if the verifier judged it
\* relevant; the call persists no other row.
Cex_C2_MatchIffVerified ==
    [][last'.op = "process" =>
         LET new == SubSeq(matches', Len(matches) + 1, Len(matches'))
             op == last'
             OfDocument(row) ==
                 \E a \in DOMAIN articles' :
                    articles'[a].url = op.url /\ articles'[a].id = row.article_id
         IN  /\ \A i \in DOMAIN op.similar :
                  op.similar[i].score > EmbeddingSimilarityThreshold
             /\ \A i \in DOMAIN op.similar :
                  op.verdicts[i] <=>
                     \E k \in DOMAIN new :
                        new[k].question = op.similar[i].text /\ OfDocument(new[k])
             /\ \A k \in DOMAIN new :
                  \E i \in Relevant(op) : new[k].question = op.similar[i].text]_vars

\* C2, without the tie of the rows to the document's article row: the rows
\* a call adds to the matches table name exactly its verified candidates.
Aux_C2_RowsAreVerifiedCandidates ==
    [][last'.op = "process" =>
         LET new == SubSeq(matches', Len(matches) + 1, Len(matches'))
             op == last'
         IN  /\ \A i \in DOMAIN op.similar :
                  op.similar[i].score > EmbeddingSimilarityThreshold
             /\ \A i \in DOMAIN op.similar :
                  op.verdicts[i] <=>
                     \E k \in DOMAIN new : new[k].question = op.similar[i].text
             /\ \A k \in DOMAIN new :
                  \E i \in Relevant(op) : new[k].question = op.similar[i].text]_vars

\* C7: every document process_articles has yielded has an article row in
\* the store; a yielded document was saved by its call, and a document whose
\* save raised is not yielded.
Thm_C7_PersistedBeforeYield ==
    /\ \A i \in DOMAIN pipeline.yielded : UrlExists(pipeline.yielded[i])
    /\ Processed =>
         /\ last.yielded => last.saved /\ UrlExists(last.url)
         /\ last.raised => ~last.yielded

\* one document was yielded, and the save of a later, new one raised
Wit_C7 ==
    /\ Processed /\ last.raised /\ ~UrlExists(last.url)
    /\ Relevant(last) # {}
    /\ pipeline.yielded # <<>>

\* C8: processing a document none of whose candidates is judged relevant
\* leaves both tables as they were and yields nothing.
Thm_C8_UnverifiedNotPersisted ==
    [][(last'.op = "process" /\ Relevant(last') = {}) =>
         /\ articles' = articles
         /\ matches' = matches
         /\ seqArticles' = seqArticles
         /\ pipeline'.yielded = pipeline.yielded
         /\ ~last'.yielded]_vars

\* candidates were found and the verifier rejected each; the store holds an
\* article already
Wit_C8 ==
    /\ Processed /\ last.similar # <<>> /\ Relevant(last) = {}
    /\ articles # <<>>
    /\ ~UrlExists(last.url)

(***************************************************************************)
(* Claims about the dispatchers, checked under Spec.                       *)
(***************************************************************************)
\* C1 (as claimed): whatever the dispatchers and the pipeline do, the channel
\* accepts at most one message for each article url.
Cex_C1_AtMostOneDelivery == \A u \in Urls : deliveries[u] <= 1

\* C11: every call of _verify_with_llm ends by returning a result list,
\* whatever the provider did at each attempt: answered (with any text),
\* signalled a rate limit, or raised another exception.
Thm_C11_NeverRaises ==
    Returned =>
        /\ ~verification.out.raised
        /\ Len(verification.out.results) = Len(verification.questions)

\* every attempt raised, the last one a rate limit signal
Wit_C11 ==
    /\ Returned /\ AllAttemptsFail
    /\ verification.questions # <<>>
    /\ verification.provider[RetryCount].kind = "rate"
    /\ verification.article.content = ""
    /\ ~verification.out.raised

\* the provider signals a rate limit at the first n attempts and answers at
\* the next
RateLimitedThenOk(n) ==
    /\ \A a \in 1..n : verification.provider[a].kind = "rate"
    /\ verification.provider[n + 1].kind = "ok"

\* C12: when the provider signals a rate limit at the first n attempts,
\* n < retry_count, and answers at the next, _verify_with_llm returns the
\* parse of that answer, with no error marker, after n waits and n + 1
\* requests.
Thm_C12_RateLimitThenSuccess ==
    \A n \in 0..(RetryCount - 1) :
       (Returned /\ verification.questions # <<>> /\ RateLimitedThenOk(n)) =>
          /\ verification.out.results =
                Results(verification.questions,
                        ParseAnswers(verification.questions, <<>>,
                                     verification.provider[n + 1].text))
          /\ \A i \in DOMAIN verification.out.results :
                ~IsErrorMarker(verification.out.results[i].llm_response)
          /\ ~verification.out.failed
          /\ verification.out.requests = n + 1
          /\ verification.out.waits = [a \in 1..n |-> RateLimitWait]

\* two rate limit signals, then an answer that judges the first question
\* relevant
Wit_C12 ==
    /\ Returned /\ RateLimitedThenOk(2)
    /\ verification.questions # <<>>
    /\ verification.out.results[1].is_relevant
    /\ verification.out.requests = 3

\* the attempts a provider needs: the first one it answers, or all of them
AttemptsNeeded(provider) ==
    IF \E a \in 1..RetryCount : provider[a].kind = "ok"
    THEN CHOOSE a \in 1..RetryCount :
            /\ provider[a].kind = "ok"
            /\ \A b \in 1..(a - 1) : provider[b].kind # "ok"
    ELSE RetryCount

\* C13: process_article calls _verify_with_llm at most once for a document,
\* and not at all without candidates; the call makes as many provider
\* requests as the provider needs attempts, whatever the number of
\* candidates: one when the first attempt answers, never more than
\* retry_count, and none without candidates.
Thm_C13_BatchedVerification ==
    Processed =>
        /\ last.calls <= 1
        /\ last.requests <= RetryCount
        /\ last.similar = <<>> => last.calls = 0 /\ last.requests = 0
        /\ last.similar # <<>> =>
             /\ last.calls = 1
             /\ last.requests = AttemptsNeeded(last.provider)
             /\ last.provider[1].kind = "ok" => last.requests = 1

\* two candidates verified by one request
Wit_C13 ==
    /\ Processed
    /\ Len(last.similar) = 2
    /\ last.provider[1].kind = "ok"
    /\ last.requests = 1

(***************************************************************************)
(* Claims about the delivered flag, checked under SpecStore.               *)
(***************************************************************************)
\* C14 (as claimed): mark_article_sent_to_telegram returns true exactly when
\* the call turned an undelivered row into a delivered one; for a delivered
\* row and for an unknown id it returns false.
Cex_C14_TrueIffChanged ==
    [][last'.op = "mark" =>
         (last'.result <=>
             \E i \in DOMAIN articles :
                articles[i].id = last'.id /\ articles[i].sent_to_telegram = 0)]_vars

\* C15 (as claimed): a call of mark_article_sent_to_telegram on a delivered
\* article leaves its telegram_sent_at as the first call wrote it.
Cex_C15_SentAtWrittenOnce ==
    [][last'.op = "mark" =>
         \A i \in DOMAIN articles :
            articles[i].sent_to_telegram = 1 =>
               articles'[i].telegram_sent_at = articles[i].telegram_sent_at]_vars

\* C16: no step of the store takes the delivered flag of an article back:
\* a row with sent_to_telegram = 1 keeps it; only
\* mark_article_sent_to_telegram changes the flag or telegram_sent_at of a
\* stored row, save_article and the read accessors leave both alone, and a
\* new row starts undelivered.
Thm_C16_FlagMonotone ==
    [][/\ Len(articles') >= Len(articles)
       /\ \A i \in DOMAIN articles :
            /\ articles'[i].url = articles[i].url
            /\ articles[i].sent_to_telegram = 1 => articles'[i].sent_to_telegram = 1
            /\ last'.op # "mark" =>
                 /\ articles'[i].sent_to_telegram = articles[i].sent_to_telegram
                 /\ articles'[i].telegram_sent_at = articles[i].telegram_sent_at
       /\ \A i \in DOMAIN articles' \ DOMAIN articles :
            articles'[i].sent_to_telegram = 0]_vars

\* a delivered article's url was saved again, with matches
Wit_C16 ==
    /\ SaveDone /\ last.existed
    /\ last.article.matches # <<>>
    /\ \E i \in DOMAIN articles :
          articles[i].url = last.article.url /\ articles[i].sent_to_telegram = 1

(***************************************************************************)
(* Claims about the dispatchers' bookkeeping, checked under Spec.          *)
(***************************************************************************)
\* the delivered flag of the article stored under a url
Flagged(u) ==
    \E i \in DOMAIN articles : articles[i].url = u /\ articles[i].sent_to_telegram = 1

\* C17 (as claimed): when no scan is under way, every article for which the
\* channel accepted a message has sent_to_telegram = 1.
Cex_C17_SentImpliesMarked ==
    \A u \in Urls : (notifier.pc = "idle" /\ deliveries[u] > 0) => Flagged(u)

\* C18 (as claimed): when a scan starts, every article whose send failed in
\* the scan before it and that is still unsent is among the articles the
\* new scan sends.
Cex_C18_FailedSendRetried ==
    [][(notifier.pc = "idle" /\ notifier'.pc = "sending") =>
         \A u \in notifier.failed :
            ~Flagged(u) =>
               \E i \in DOMAIN notifier'.queue : notifier'.queue[i].url = u]_vars

\* C19 (as claimed): a dispatcher scan attempts a send for each of its
\* qualifying articles, whether or not an earlier send failed: a
\* check_and_notify scan ends with its queue emptied, and a /recent command
\* calls the channel for every unsent article with matches.
Cex_C19_ScanNotAborted ==
    /\ notifier.pc = "idle" => notifier.queue = <<>>
    /\ last.op = "recent" => last.attempted = last.qualifying

(***************************************************************************)
(* Claims about the delivery threshold, checked under SpecDispatch.        *)
(***************************************************************************)
\* the scores of the matches attached to the article stored under a url
ScoresOf(u) ==
    {matches[k].similarity_score :
        k \in {k \in DOMAIN matches :
                  matches[k].article_id = articles[IdOfUrl(u)].id}}

\* C20 (as claimed): an article none of whose matches meets the delivery
\* threshold has had no message accepted by the channel and is unsent.
Cex_C20_BelowThresholdNeverSent ==
    \A u \in Urls :
       (UrlExists(u) /\ \A sc \in ScoresOf(u) : sc < TelegramNotificationThreshold) =>
          /\ deliveries[u] = 0
          /\ ~Flagged(u)

(***************************************************************************)
(* Claims about the messages of a scan, checked under Spec.                *)
(***************************************************************************)
\* C21 (as claimed): the messages a check_and_notify scan has still to send
\* name each article once: no two entries of its queue carry the same url.
Cex_C21_OneMessagePerArticle ==
    \A i, j \in DOMAIN notifier.queue :
       i # j => notifier.queue[i].url # notifier.queue[j].url

(***************************************************************************)
(* Claims about the delivered flag and the dispatchers, checked under      *)
(* SpecDispatch.                                                           *)
(***************************************************************************)
\* C22: every article with sent_to_telegram = 1 is one for which the
\* channel accepted a message at least once.
Thm_C22_MarkedImpliesSent ==
    \A u \in Urls : Flagged(u) => deliveries[u] >= 1

\* a /recent command sent two articles and marked them
Wit_C22 ==
    /\ last.op = "recent" /\ last.marked
    /\ Len(last.sent) = 2
    /\ \A u \in Urls : Flagged(u)

(***************************************************************************)
(* Claims about the accessors, checked under SpecStore.                    *)
(***************************************************************************)
\* the limits the accessors are asked for: none, fewer than the store can
\* hold, and the command's
Limits == {0, 1, 2, UnsentLimit}

\* C23: whatever was saved and marked so far, and for every limit,
\* get_unsent_telegram_articles returns at most limit articles, each with
\* the id of a stored row of its url whose sent_to_telegram is 0, and no
\* article twice; so an article that was marked is returned by no later
\* call.
Thm_C23_UnsentOnly ==
    \A limit \in Limits :
       LET got == GetUnsentTelegramArticles(limit)
       IN  /\ Len(got) <= limit
           /\ \A i \in DOMAIN got :
                /\ "id" \in DOMAIN got[i]
                /\ \E a \in DOMAIN articles :
                     /\ articles[a].id = got[i].id
                     /\ articles[a].url = got[i].url
                     /\ articles[a].sent_to_telegram = 0
           /\ \A i, j \in DOMAIN got : i # j => got[i].id # got[j].id

\* one article was marked and another is still unsent
Wit_C23 ==
    /\ last.op = "mark" /\ last.result
    /\ Len(articles) = 2
    /\ Len(GetUnsentTelegramArticles(UnsentLimit)) = 1

(***************************************************************************)
(* Claims about the similarity stage, checked under SpecRank.              *)
(***************************************************************************)
Ranked == last.op = "ranked"

\* the queries scored above the threshold
Above(scores) == {i \in DOMAIN scores : scores[i] > EmbeddingSimilarityThreshold}

\* the position in the input of a query of the result (the inputs' texts
\* are distinct)
InputIndex(texts, text) == CHOOSE i \in DOMAIN texts : texts[i] = text

\* C24: find_similar returns min(top_k, number of queries above the
\* threshold) entries, each a query of the input with its own score, which
\* is strictly above the threshold, no query twice, in non-increasing order
\* of score, and no query left out scores higher than one returned.
Thm_C24_TopKAboveThreshold ==
    Ranked =>
        LET out == last.out
            above == Above(last.scores)
            idx(i) == InputIndex(last.texts, out[i].text)
        IN  /\ Len(out) = IF last.top_k < Cardinality(above)
                          THEN last.top_k ELSE Cardinality(above)
            /\ \A i \in DOMAIN out :
                 /\ \E k \in DOMAIN last.texts : last.texts[k] = out[i].text
                 /\ idx(i) \in above
                 /\ out[i].score = last.scores[idx(i)]
            /\ \A i, j \in DOMAIN out :
                 i < j => out[i].text # out[j].text /\ out[i].score >= out[j].score
            /\ \A k \in above :
                 (\A i \in DOMAIN out : idx(i) # k) =>
                    \A i \in DOMAIN out : last.scores[k] <= out[i].score

\* three queries, one at the threshold and two above it, cut to the best one
Wit_C24 ==
    /\ Ranked
    /\ last.top_k = 1
    /\ last.scores = <<904, 700, 704>>
    /\ Len(last.out) = 1 /\ last.out[1].text = "qa"

\* C25 (as claimed): queries of equal score are returned in their input
\* order, and of two queries of equal score of which the cut keeps one, it
\* keeps the earlier.
Cex_C25_TiesInInputOrder ==
    Ranked =>
        LET out == last.out
            idx(i) == InputIndex(last.texts, out[i].text)
        IN  /\ \A i, j \in DOMAIN out :
                 (i < j /\ out[i].score = out[j].score) => idx(i) < idx(j)
            /\ \A k \in Above(last.scores) :
                 (\A i \in DOMAIN out : idx(i) # k) =>
                    \A i \in DOMAIN out : last.scores[k] = out[i].score => idx(i) < k

(***************************************************************************)
(* The score of one match through the store: process_article writes the    *)
(* relevance text of a score, save_article parses and stores it, and the   *)
(* four accessors rebuild a relevance text from the stored number.         *)
(***************************************************************************)
MaxScore == 1000

Scores == 0..MaxScore

\* the match dict process_article builds for a verified candidate
ScoredMatch(score) ==
    [question |-> "qa", relevance |-> Relevance(score),
     llm_response |-> <<"yes">>, type |-> "match"]

InitScore ==
    /\ EmptyStore
    /\ clock = 0
    /\ pipeline = NoRun
    /\ notifier = IdleNotifier
    /\ deliveries = [u \in Urls |-> 0]
    /\ tz = 0
    /\ verification = NoCall
    /\ \E url \in Urls, s \in Scores :
         last = [op |-> "score", url |-> url, score |-> s]

\* save_article of an article whose one match carries the score
SaveScored ==
    /\ last.op = "score"
    /\ LET article == Document(last.url, 1) @@ [matches |-> <<ScoredMatch(last.score)>>]
       IN  \E out \in {SaveOutcome(article, clock)} :
              /\ articles' = out.db.articles
              /\ matches' = out.db.matches
              /\ seqArticles' = out.db.seqArticles
              /\ seqMatches' = out.db.seqMatches
              /\ last' = [op |-> "scored", url |-> last.url, score |-> last.score,
                          raised |-> out.raised]
    /\ clock' = clock + 1
    /\ UNCHANGED <<verification, pipeline, notifier, deliveries, tz>>

\* the matches each accessor returns for the saved article
ReadScored ==
    /\ last.op = "scored"
    /\ last' = [op |-> "readback", url |-> last.url, score |-> last.score,
                recent |-> GetRecentArticles(TimeframeLimit),
                unsent |-> GetUnsentTelegramArticles(UnsentLimit),
                timeframe |-> GetArticlesByTimeframe(0, clock, TimeframeLimit),
                by_url |-> GetArticleByUrl(last.url)]
    /\ UNCHANGED <<store, clock, verification, pipeline, notifier, deliveries, tz>>

NextScore == SaveScored \/ ReadScored

SpecScore == InitScore /\ [][NextScore]_vars

\* the relevance texts of the matches of the one article in an accessor's result
RelevancesIn(result) ==
    IF Len(result) # 1 THEN <<>>
    ELSE [i \in DOMAIN result[1].matches |-> result[1].matches[i].relevance]

\* r is s to two decimal places: a whole number of hundredths, the nearest to s
ToTwoDecimals(r, s) == r % 10 = 0 /\ r - s <= 5 /\ s - r <= 5

\* C26: after save_article stored a match whose relevance text was written
\* from the score s, each of get_recent_articles,
\* get_unsent_telegram_articles, get_articles_by_timeframe and
\* get_article_by_url returns the article with exactly that one match, its
\* relevance text parses, and the parsed score is s to two decimal places
\* and is the stored similarity_score.
Thm_C26_ScoreRoundTrip ==
    last.op = "readback" =>
        \A result \in {last.recent, last.unsent, last.timeframe, last.by_url} :
            LET rs == RelevancesIn(result)
            IN  /\ Len(rs) = 1
                /\ ScoreParses(rs[1])
                /\ ToTwoDecimals(ParsedScore(rs[1]), last.score)
                /\ Len(matches) = 1
                /\ ParsedScore(rs[1]) = matches[1].similarity_score

Wit_C26 ==
    /\ last.op = "readback"
    /\ last.score = 873
    /\ ParsedScore(RelevancesIn(last.timeframe)[1]) = 870
    /\ ParsedScore(RelevancesIn(last.by_url)[1]) = 870

(***************************************************************************)
(* process_articles as a generator with its consumer: the body runs only   *)
(* inside a next() call of the consumer, from where it was suspended to    *)
(* its next yield or to its end.                                           *)
(***************************************************************************)
\* the input lists of a run: one document or more, by url
StreamDocs == UNION {[1..n -> Urls] : n \in 1..MaxDocs}

StreamQuestions == {<<"qa">>}

StreamScores == {650, 904}

StreamProviders == {Answering(<<Line(1, "yes")>>), Answering(<<Line(1, "no")>>)}

\* a function that builds the whole list before it returns it
ResumedOrNot(run) == TRUE

\* the generator's frame executes: the consumer is inside next()
Resumed(run) == run.pc = "running"

InitStream ==
    /\ EmptyStore
    /\ clock = 0
    /\ last = NoOp
    /\ notifier = IdleNotifier
    /\ deliveries = [u \in Urls |-> 0]
    /\ tz = 0
    /\ verification = NoCall
    /\ \E docs \in StreamDocs :
         pipeline = [docs |-> docs, pos |-> 0, yielded |-> <<>>,
                     pc |-> "suspended", stopped |-> FALSE, log |-> <<>>]

\* the consumer asks for the next result
Pull ==
    /\ pipeline.pc = "suspended"
    /\ ~pipeline.stopped
    /\ pipeline' = [pipeline EXCEPT !.pc = "running"]
    /\ UNCHANGED <<store, clock, last, verification, notifier, deliveries, tz>>

\* one iteration of `for article in articles`: process_article, then the
\* yield when the document has matches
StreamStep ==
    /\ Resumed(pipeline)
    /\ pipeline.pos < Len(pipeline.docs)
    /\ \E questions \in StreamQuestions, provider \in StreamProviders :
         \E scoreOf \in [Range(questions) -> StreamScores] :
            \E order \in ArgSorts([i \in DOMAIN questions |-> scoreOf[questions[i]]]) :
               LET pos == pipeline.pos + 1
                   url == pipeline.docs[pos]
               IN  \E out \in {ProcessArticle(Document(url, 1), questions, scoreOf, order,
                                              ConfiguredLlm, provider, FALSE, clock + tz)} :
                      /\ articles' = out.db.articles
                      /\ matches' = out.db.matches
                      /\ seqArticles' = out.db.seqArticles
                      /\ seqMatches' = out.db.seqMatches
                      /\ pipeline' =
                            [pipeline EXCEPT
                               !.pos = pos,
                               !.yielded = IF Yields(out.matches) THEN Append(@, url) ELSE @,
                               !.pc = IF Yields(out.matches) THEN "suspended" ELSE "running",
                               !.log = Append(@, [pos |-> pos, url |-> url,
                                                  ranked |-> TRUE,
                                                  verified |-> out.calls > 0,
                                                  persisted |-> out.saved,
                                                  yielded |-> Yields(out.matches)])]
                      /\ last' = [op |-> "process", url |-> url,
                                  similar |-> out.similar, verdicts |-> out.verdicts,
                                  saved |-> out.saved, raised |-> out.raised,
                                  provider |-> provider, calls |-> out.calls,
                                  requests |-> out.requests,
                                  yielded |-> Yields(out.matches)]
    /\ clock' = clock + 1
    /\ UNCHANGED <<verification, notifier, deliveries, tz>>

\* the loop ran out of documents: StopIteration
StreamEnd ==
    /\ pipeline.pc = "running"
    /\ pipeline.pos = Len(pipeline.docs)
    /\ pipeline' = [pipeline EXCEPT !.pc = "done"]
    /\ UNCHANGED <<store, clock, last, verification, notifier, deliveries, tz>>

\* the consumer stops pulling (the client of the stream went away)
Stop ==
    /\ pipeline.pc = "suspended"
    /\ ~pipeline.stopped
    /\ pipeline' = [pipeline EXCEPT !.stopped = TRUE]
    /\ UNCHANGED <<store, clock, last, verification, notifier, deliveries, tz>>

NextStream == Pull \/ StreamStep \/ StreamEnd \/ Stop

SpecStream == InitStream /\ [][NextStream]_vars

\* the position of the document that produced the n-th result, 0 for n = 0
ProducerOf(n) ==
    IF n = 0 THEN 0
    ELSE CHOOSE p \in DOMAIN pipeline.docs :
            /\ \E k \in DOMAIN pipeline.log :
                  pipeline.log[k].pos = p /\ pipeline.log[k].yielded
            /\ Cardinality({k \in DOMAIN pipeline.log :
                              pipeline.log[k].pos <= p /\ pipeline.log[k].yielded}) = n

\* C27: once the consumer of process_articles stopped pulling after n
\* results, no document positioned after the one that produced the n-th
\* result (after none, for n = 0) was ranked, sent to the verifier or
\* persisted: the run's log holds no entry for such a position, and every
\* article and match row of the store belongs to a document at or before
\* that position that was persisted.
Thm_C27_Lazy ==
    pipeline.stopped =>
        LET n == Len(pipeline.yielded)
            p == ProducerOf(n)
        IN  /\ \A k \in DOMAIN pipeline.log : pipeline.log[k].pos <= p
            /\ pipeline.pos = p
            /\ \A i \in DOMAIN articles :
                  \E k \in DOMAIN pipeline.log :
                     /\ pipeline.log[k].url = articles[i].url
                     /\ pipeline.log[k].persisted
            /\ Len(matches) =
                  Cardinality({k \in DOMAIN pipeline.log : pipeline.log[k].persisted})

Wit_C27 ==
    /\ pipeline.stopped
    /\ Len(pipeline.yielded) = 1
    /\ Len(pipeline.docs) = 2
    /\ pipeline.docs[1] # pipeline.docs[2]
    /\ pipeline.pos = 1
    /\ Len(articles) = 1

(***************************************************************************)
(* A run of process_articles whose documents may fail: find_similar, the   *)
(* verifier or save_article raises, _get_questions returns no query, or    *)
(* the fetcher could not extract the document's content.                   *)
(***************************************************************************)
Faults == {"none", "find_similar", "verification", "save_article",
           "no_queries", "no_content"}

\* the document of the input list under a fault: _get_article_content
\* returned "" for it, or building the verifier's prompt from it raises
FaultyDocument(url, fault) ==
    LET d == Document(url, 1)
    IN  CASE fault = "no_content" -> [d EXCEPT !.content = ""]
          [] fault = "verification" -> [k \in DOMAIN d \ {"content"} |-> d[k]]
          [] OTHER -> d

\* process_article when find_similar may raise: the handler returns the
\* document without matches
ProcessArticleOrRaise(article, questions, scoreOf, order, llm, provider, matcherRaises, storeRaises, now) ==
    IF matcherRaises
    THEN [similar |-> <<>>, verdicts |-> <<>>, requests |-> 0, saved |-> FALSE,
          calls |-> 0, raised |-> TRUE, matches |-> ReturnedMatches(<<>>, TRUE),
          db |-> [articles |-> articles, matches |-> matches,
                  seqArticles |-> seqArticles, seqMatches |-> seqMatches]]
    ELSE ProcessArticle(article, questions, scoreOf, order, llm, provider,
                        storeRaises, now)

\* `except Exception` around the body of process_article: what the body
\* raises is caught there and does not leave the call
Caught(raised) == TRUE

\* one iteration of `for article in articles` over a document with a fault
IsolateStep ==
    /\ Resumed(pipeline)
    /\ pipeline.pos < Len(pipeline.docs)
    /\ \E fault \in Faults, provider \in StreamProviders :
         LET pos == pipeline.pos + 1
             url == pipeline.docs[pos]
             questions == IF fault = "no_queries" THEN <<>> ELSE <<"qa">>
         IN  \E scoreOf \in [Range(questions) -> StreamScores] :
               \E order \in ArgSorts([i \in DOMAIN questions |-> scoreOf[questions[i]]]) :
                 \E out \in {ProcessArticleOrRaise(FaultyDocument(url, fault), questions,
                                 scoreOf, order, ConfiguredLlm, provider,
                                 fault = "find_similar", fault = "save_article",
                                 clock + tz)} :
                    LET escapes == out.raised /\ ~Caught(out.raised)
                        yields == ~escapes /\ Yields(out.matches)
                    IN  /\ articles' = out.db.articles
                        /\ matches' = out.db.matches
                        /\ seqArticles' = out.db.seqArticles
                        /\ seqMatches' = out.db.seqMatches
                        /\ pipeline' =
                              [pipeline EXCEPT
                                 !.pos = pos,
                                 !.yielded = IF yields THEN Append(@, url) ELSE @,
                                 !.pc = IF escapes THEN "raised"
                                        ELSE IF yields THEN "suspended" ELSE "running",
                                 !.log = Append(@, [pos |-> pos, url |-> url,
                                                    ranked |-> TRUE,
                                                    verified |-> out.calls > 0,
                                                    persisted |-> out.saved,
                                                    yielded |-> yields])]
                        /\ last' = [op |-> "process", url |-> url, fault |-> fault,
                                    similar |-> out.similar, verdicts |-> out.verdicts,
                                    saved |-> out.saved, raised |-> out.raised,
                                    provider |-> provider, calls |-> out.calls,
                                    requests |-> out.requests,
                                    yielded |-> yields]
    /\ clock' = clock + 1
    /\ UNCHANGED <<verification, notifier, deliveries, tz>>

NextIsolate == Pull \/ IsolateStep \/ StreamEnd

SpecIsolate == InitStream /\ [][NextIsolate]_vars

\* the step processed a document that failed as C28 lists it
FailedDocument(op) ==
    /\ op.op = "process"
    /\ \/ op.raised
       \/ op.fault \in {"no_queries", "no_content"}

\* C28 (as claimed): a document whose processing failed (find_similar, the
\* verifier or save_article raised, or the query set or the document's
\* content was empty) yields nothing, no exception reaches the consumer, and
\* the run goes on with the documents after it.
Cex_C28_FailureIsolated ==
    [][(pipeline'.pos # pipeline.pos /\ FailedDocument(last')) =>
         /\ ~last'.yielded
         /\ pipeline'.yielded = pipeline.yielded
         /\ pipeline'.pc = "running"]_vars

\* C28, the part that holds: a document during whose processing anything
\* raised, or for which there was no query, yields nothing and leaves the
\* store as it was, no exception reaches the consumer, and the run goes on.
Aux_C28_ExceptionsIsolated ==
    [][(/\ pipeline'.pos # pipeline.pos
        /\ last'.op = "process"
        /\ last'.raised \/ last'.fault = "no_queries") =>
         /\ ~last'.yielded
         /\ pipeline'.yielded = pipeline.yielded
         /\ pipeline'.pc = "running"
         /\ articles' = articles /\ matches' = matches]_vars

(***************************************************************************)
(* Two pipeline workers that call save_article for the same url, each on   *)
(* its own connection.  The INSERT OR IGNORE opens the call's transaction  *)
(* and takes the database's write lock, which the commit at the end of the *)
(* call gives back; a connection that finds the lock taken waits for it,   *)
(* and raises "database is locked" when the wait exceeds its timeout.      *)
(***************************************************************************)
Workers == {1, 2}

NoLock == 0

InitWorkers ==
    /\ EmptyStore
    /\ clock = 0
    /\ last = NoOp
    /\ notifier = IdleNotifier
    /\ deliveries = [u \in Urls |-> 0]
    /\ tz = 0
    /\ verification = NoCall
    /\ \E url \in Urls, v \in [Workers -> Versions], ms \in [Workers -> StoredMatchLists] :
         pipeline = [lock |-> NoLock,
                     calls |-> [w \in Workers |->
                                  [pc |-> "called",
                                   article |-> Document(url, v[w]) @@ [matches |-> ms[w]],
                                   article_id |-> None]]]

\* the call's INSERT OR IGNORE and its reading of cursor.lastrowid
WorkerInsertsArticle(w) ==
    /\ pipeline.calls[w].pc = "called"
    /\ pipeline.lock = NoLock
    /\ LET article == pipeline.calls[w].article
           inserted == ~UrlExists(article.url)
           db == StoreAfter(article, clock + tz, 0)
       IN  /\ articles' = db.articles
           /\ seqArticles' = db.seqArticles
           /\ pipeline' = [pipeline EXCEPT
                             !.lock = w,
                             !.calls[w].pc = "inserted",
                             !.calls[w].article_id =
                                ArticleIdOf(LastRowId(inserted, seqArticles + 1),
                                            article.url)]
           /\ last' = [op |-> "insert", worker |-> w, inserted |-> inserted]
    /\ clock' = clock + 1
    /\ UNCHANGED <<matches, seqMatches, verification, notifier, deliveries, tz>>

\* the call's matches loop, conn.commit() and return
WorkerCommits(w) ==
    /\ pipeline.calls[w].pc = "inserted"
    /\ LET call == pipeline.calls[w]
           rows == MatchRows(call.article.matches, call.article_id, seqMatches + 1)
       IN  /\ matches' = matches \o rows
           /\ seqMatches' = seqMatches + Len(rows)
           /\ last' = [op |-> "commit", worker |-> w, id |-> call.article_id]
    /\ pipeline' = [pipeline EXCEPT !.lock = NoLock, !.calls[w].pc = "returned"]
    /\ UNCHANGED <<articles, seqArticles, clock, verification, notifier, deliveries, tz>>

\* the call waited for the other connection's lock longer than its timeout:
\* sqlite3.OperationalError leaves save_article
WorkerTimesOut(w) ==
    /\ pipeline.calls[w].pc = "called"
    /\ pipeline.lock \notin {NoLock, w}
    /\ pipeline' = [pipeline EXCEPT !.calls[w].pc = "raised"]
    /\ last' = [op |-> "locked", worker |-> w]
    /\ UNCHANGED <<store, clock, verification, notifier, deliveries, tz>>

NextWorkers ==
    \E w \in Workers : WorkerInsertsArticle(w) \/ WorkerCommits(w) \/ WorkerTimesOut(w)

SpecWorkers == InitWorkers /\ [][NextWorkers]_vars

\* both calls have returned
WorkersDone == \A w \in Workers : pipeline.calls[w].pc = "returned"

\* C29 (as claimed): when both concurrent save_article calls for the url
\* have returned, in whatever order their steps were taken, the store holds
\* exactly one article row for it, and the match rows of both calls are
\* stored and carry that row's id.
Cex_C29_ConcurrentSavesMerge ==
    WorkersDone =>
        LET url == pipeline.calls[1].article.url
        IN  /\ Cardinality(RowsOfUrl(articles, url)) = 1
            /\ Len(matches) = Len(pipeline.calls[1].article.matches)
                                + Len(pipeline.calls[2].article.matches)
            /\ \A k \in DOMAIN matches :
                  matches[k].article_id = articles[IdOfUrl(url)].id

\* C29, the part that holds: at every moment of the two calls the store
\* holds at most one article row for the url, and exactly one once a call
\* has inserted; the calls never hold the write lock together.
Aux_C29_OneRow ==
    LET url == pipeline.calls[1].article.url
    IN  /\ Cardinality(RowsOfUrl(articles, url)) <= 1
        /\ (\E w \in Workers : pipeline.calls[w].pc \in {"inserted", "returned"})
              => Cardinality(RowsOfUrl(articles, url)) = 1
        /\ Cardinality({w \in Workers : pipeline.calls[w].pc = "inserted"}) <= 1

\* the response the call parsed, when the provider answered at once
FirstReplyParsed == Returned /\ verification.provider[1].kind = "ok"

\* the line begins with the integer i, the delimiter and the token yes in
\* any letter case
SaysYes(rawLine, i) ==
    LET line == Strip(rawLine)
        parts == SplitOnce(line, ".")
    IN  /\ Len(parts) = 2
        /\ AllDigits(parts[1]) /\ DigitsValue(parts[1]) = i
        /\ Strip(parts[2]) # <<>>
        /\ Head(Strip(parts[2])) \in {"yes", "Yes", "YES"}

\* C30 (as claimed): candidate i of _verify_with_llm is judged relevant if
\* and only if the response holds a line that begins with the integer i,
\* the delimiter and the token yes in any letter case; a candidate without
\* such a line is judged not relevant.
Cex_C30_RelevantIffYesLine ==
    FirstReplyParsed =>
        \A i \in DOMAIN verification.questions :
            verification.out.results[i].is_relevant <=>
                \E k \in DOMAIN verification.provider[1].text :
                    SaysYes(verification.provider[1].text[k], i)

\* C30, the part that holds: a candidate judged relevant has a line that
\* begins with the integer, the delimiter and the token yes for its query
\* text, at its own position or at that of an equal query; a candidate
\* none of whose lines does is judged not relevant.
Aux_C30_RelevantOnlyWithYesLine ==
    FirstReplyParsed =>
        \A i \in DOMAIN verification.questions :
            verification.out.results[i].is_relevant =>
                \E k \in DOMAIN verification.provider[1].text,
                   j \in DOMAIN verification.questions :
                    /\ verification.questions[j] = verification.questions[i]
                    /\ SaysYes(verification.provider[1].text[k], j)

(***************************************************************************)
(* _verify_with_llm on a response and on the same response with one more   *)
(* line that is not an answer line.                                        *)
(***************************************************************************)
\* lines that are not of the shape <int>.<space><token>: commentary, a blank
\* line, and sentences that start with a digit
CommentaryLines ==
    {<<"Here", " ", "you", " ", "go">>,
     <<>>,
     <<"2", " ", "of", " ", "them">>,
     <<"1", ".", "5", " ", "million">>}

\* the response with the line put after its first k lines
InsertAt(lines, k, line) ==
    SubSeq(lines, 1, k) \o <<line>> \o SubSeq(lines, k + 1, Len(lines))

InitCommentary ==
    /\ EmptyStore
    /\ Idle
    /\ tz = 0
    /\ \E qs \in QuestionLists \ {<<>>}, r \in Responses, c \in CommentaryLines :
         \E k \in 0..Len(r) :
            verification = [phase |-> "called", questions |-> qs, response |-> r,
                            extra |-> c, at |-> k]

\* the two calls return
VerifyBoth ==
    /\ verification.phase = "called"
    /\ LET article == [title |-> "title1", content |-> "text1"]
           Call(text) == VerifyWithLlm(ConfiguredLlm, article, verification.questions,
                                       Answering(text), RetryCount)
       IN  verification' =
             [verification EXCEPT !.phase = "returned"] @@
             [plain |-> Call(verification.response).results,
              extended |-> Call(InsertAt(verification.response, verification.at,
                                         verification.extra)).results]
    /\ UNCHANGED <<store, clock, last, pipeline, notifier, deliveries, tz>>

NextCommentary == VerifyBoth

SpecCommentary == InitCommentary /\ [][NextCommentary]_vars

\* C31 (as claimed): a line that is not of the shape <int>.<space><token>,
\* added anywhere to a provider response, leaves every is_relevant value of
\* _verify_with_llm as it is without the line.
Cex_C31_CommentaryIgnored ==
    verification.phase = "returned" =>
        \A i \in DOMAIN verification.questions :
            verification.extended[i].is_relevant = verification.plain[i].is_relevant

\* C31, the part that holds: an added line that does not start with a digit
\* or holds no '.' leaves every is_relevant value as it is.
Aux_C31_PlainCommentaryIgnored ==
    (/\ verification.phase = "returned"
     /\ \/ ~StartsWithDigit(Strip(verification.extra))
        \/ IndexOf(verification.extra, ".") = 0) =>
        \A i \in DOMAIN verification.questions :
            verification.extended[i].is_relevant = verification.plain[i].is_relevant

(***************************************************************************)
(* Claims about the checkpoint of check_and_notify, checked under          *)
(* SpecDispatch.                                                           *)
(***************************************************************************)
\* C32: last_check_time never decreases, and every check_and_notify scan
\* that completes moves it forward to the time of its completion, whether
\* the scan found nothing, sent its messages or had sends that failed.
Thm_C32_CheckpointAdvances ==
    [][/\ notifier'.last_check_time >= notifier.last_check_time
       /\ (notifier.pc = "sending" /\ notifier'.pc = "idle") =>
             /\ notifier'.last_check_time = clock
             /\ notifier'.last_check_time > notifier.last_check_time]_vars

\* a second scan completed, and a send of it failed
Wit_C32 ==
    /\ last.op = "checked"
    /\ notifier.failed # {}
    /\ notifier.commands = 2
    /\ notifier.last_check_time > 0

(***************************************************************************)
(* The text of one message on its way into the channel request, by its     *)
(* length: send_telegram_message cuts it, recent_command hands it to       *)
(* reply_text as it is.  The channel answers 400 to a text longer than its *)
(* maximum, which reply_text raises as BadRequest.                         *)
(***************************************************************************)
MaxMessage == 4200

ChannelMax == 4096

TruncateAt == 4000

\* len("... [truncated]")
MarkerLen == 15

Dispatchers == {"send_telegram_message", "recent_command"}

\* if len(message) > 4000: message = message[:4000] + "... [truncated]"
Truncated(message) ==
    IF message.len > TruncateAt
    THEN [len |-> TruncateAt + MarkerLen, marker |-> TRUE]
    ELSE message

\* the text of the request each dispatcher makes for a message
RequestText(dispatcher, message) ==
    IF dispatcher = "send_telegram_message" THEN Truncated(message) ELSE message

\* the channel's answer to a request with this text, nothing else being wrong
ChannelReply(text) == IF text.len <= ChannelMax THEN "ok" ELSE "400"

InitLength ==
    /\ EmptyStore
    /\ clock = 0
    /\ pipeline = NoRun
    /\ notifier = IdleNotifier
    /\ deliveries = [u \in Urls |-> 0]
    /\ tz = 0
    /\ verification = NoCall
    /\ \E d \in Dispatchers, n \in 1..MaxMessage :
         last = [op |-> "message", dispatcher |-> d,
                 message |-> [len |-> n, marker |-> FALSE]]

\* the dispatcher sends the message
DispatchMessage ==
    /\ last.op = "message"
    /\ LET text == RequestText(last.dispatcher, last.message)
           replies == [i \in DOMAIN ParseModes |-> ChannelReply(text)]
       IN  last' = [op |-> "dispatched", dispatcher |-> last.dispatcher,
                    message |-> last.message, text |-> text,
                    delivered |-> IF last.dispatcher = "send_telegram_message"
                                  THEN SendTelegramMessage(replies).ok
                                  ELSE ChannelReply(text) = "ok"]
    /\ UNCHANGED <<store, clock, verification, pipeline, notifier, deliveries, tz>>

NextLength == DispatchMessage

SpecLength == InitLength /\ [][NextLength]_vars

\* C33 (as claimed): whatever the length of a message, the text a
\* dispatcher puts in the channel request is no longer than the channel's
\* maximum of 4096 characters, a message longer than that is cut and ends
\* with the truncation marker, and the message is delivered.
Cex_C33_LengthNeverFails ==
    last.op = "dispatched" =>
        /\ last.text.len <= ChannelMax
        /\ last.message.len > ChannelMax => last.text.marker
        /\ last.delivered

\* C33, the part that holds: send_telegram_message cuts every message that
\* is longer than 4000 characters to 4000 and the marker, so its request
\* text stays within 4096 and the channel accepts it.
Aux_C33_NotifierTruncates ==
    (last.op = "dispatched" /\ last.dispatcher = "send_telegram_message") =>
        /\ last.text.len <= ChannelMax
        /\ last.message.len > TruncateAt =>
              last.text.marker /\ last.text.len = TruncateAt + MarkerLen
        /\ last.delivered

(***************************************************************************)
(* send_telegram_message on its own: one call, the channel answering each  *)
(* request of the call in any way.                                         *)
(***************************************************************************)
\* what the channel does with a request: it accepts it, answers with an
\* error status, or the request raises (connection error, timeout)
ChannelAnswers == {"ok", "400", "401", "403", "429", "500", "raise", "timeout"}

InitSend ==
    /\ EmptyStore
    /\ clock = 0
    /\ pipeline = NoRun
    /\ notifier = IdleNotifier
    /\ deliveries = [u \in Urls |-> 0]
    /\ tz = 0
    /\ verification = NoCall
    /\ \E replies \in [DOMAIN ParseModes -> ChannelAnswers] :
         last = [op |-> "sending", replies |-> replies]

SendReturns ==
    /\ last.op = "sending"
    /\ \E out \in {SendTelegramMessage(last.replies)} :
         last' = [op |-> "sent", replies |-> last.replies,
                  ok |-> out.ok, requests |-> out.requests]
    /\ UNCHANGED <<store, clock, verification, pipeline, notifier, deliveries, tz>>

NextSend == SendReturns

SpecSend == InitSend /\ [][NextSend]_vars

\* C34 (as claimed): when the channel answers 400 to the HTML request of
\* send_telegram_message, the function makes exactly one more request,
\* with plain formatting, and returns whether that one was accepted.
Cex_C34_PlainFallback ==
    (last.op = "sent" /\ last.replies[1] = "400") =>
        /\ last.requests = 2
        /\ last.ok <=> last.replies[2] = "ok"

\* C34, what the code does: one request per call, whose acceptance is the
\* result.
Aux_C34_OneRequest ==
    last.op = "sent" =>
        /\ last.requests = 1
        /\ last.ok <=> last.replies[1] = "ok"

\* the verdicts of the response read by position alone: the same parse over
\* candidates that are told apart by their positions
PositionalVerdicts(n, text) ==
    LET positions == [j \in 1..n |-> j]
        results == Results(positions, ParseAnswers(positions, <<>>, text))
    IN  [j \in 1..n |-> results[j].is_relevant]

\* C35 (as claimed): the is_relevant value _verify_with_llm returns for the
\* candidate at position i is the one the response lines carrying index i
\* give, also when the same query text stands at two positions.
Cex_C35_PositionalVerdicts ==
    FirstReplyParsed =>
        \A i \in DOMAIN verification.questions :
            verification.out.results[i].is_relevant =
                PositionalVerdicts(Len(verification.questions),
                                   verification.provider[1].text)[i]

\* C35, the part that holds: for candidates with pairwise different texts
\* the verdicts are positional.
Aux_C35_PositionalWhenDistinct ==
    (/\ FirstReplyParsed
     /\ \A i, j \in DOMAIN verification.questions :
           verification.questions[i] = verification.questions[j] => i = j) =>
        \A i \in DOMAIN verification.questions :
            verification.out.results[i].is_relevant =
                PositionalVerdicts(Len(verification.questions),
                                   verification.provider[1].text)[i]

\* the failed attempts of the call that were not the last one allowed
BackedOffAttempts ==
    IF verification.out.failed THEN RetryCount - 1
    ELSE verification.out.requests - 1

\* the provider's rate-limit or quota signal: HTTP 429 from ollama,
\* ResourceExhausted (the mapping of 429) from gemini
RateLimitSignal(llm, kind) ==
    kind = "rate" \/ (llm = "gemini" /\ kind = "exhausted")

\* C36 (as claimed): the waits of a _verify_with_llm call are one per
\* failed attempt that was not the last, in order, 60 s after a rate-limit
\* or quota signal and 5 s after any other error; there is no wait after
\* the final attempt or after a success.
Cex_C36_OneBackoffPerRetry ==
    (Returned /\ verification.questions # <<>>) =>
        verification.out.waits =
            [a \in 1..BackedOffAttempts |->
               IF RateLimitSignal(verification.llm, verification.provider[a].kind)
               THEN RateLimitWait ELSE ErrorWait]

\* C36, the part that holds: one wait per failed attempt that was not the
\* last, none after the final attempt or a success, 60 s after HTTP 429 or
\* a ResourceExhausted that names the quota, and 5 s otherwise.
Aux_C36_OneWaitEach ==
    (Returned /\ verification.questions # <<>>) =>
        verification.out.waits =
            [a \in 1..BackedOffAttempts |->
               IF verification.provider[a].kind = "rate"
               THEN RateLimitWait ELSE ErrorWait]

(***************************************************************************)
(* The scans of check_and_notify running beside the match pipeline, the    *)
(* channel accepting every message.                                        *)
(***************************************************************************)
AcceptingReplies == {[i \in DOMAIN ParseModes |-> "ok"]}

ScanDelivers == ScanSendWith(AcceptingReplies)

NextRace ==
    \/ ProcessStep
    \/ ScanStart
    \/ ScanDelivers
    \/ ScanFinish

SpecRace == Init /\ [][NextRace]_vars

\* the stored article has a match that meets the notification threshold
Qualifies(article) ==
    \E k \in DOMAIN matches :
        /\ matches[k].article_id = article.id
        /\ matches[k].similarity_score >= TelegramNotificationThreshold

\* C37 (as claimed): with every send succeeding, no stored article with a
\* qualifying match is lost to the scans: whenever no scan is under way,
\* such an article was sent, or a later scan will still select it
\* (its created_at is after last_check_time).
Cex_C37_NoLostNotification ==
    notifier.pc = "idle" =>
        \A i \in DOMAIN articles :
            (Qualifies(articles[i]) /\ deliveries[articles[i].url] = 0) =>
                articles[i].created_at > notifier.last_check_time

(***************************************************************************)
(* process_articles_directly: the consumer of process_articles that saves  *)
(* every document it is handed, after process_article saved it already.    *)
(***************************************************************************)
\* input lists without a url twice
DirectDocs == {docs \in StreamDocs : \A i, j \in DOMAIN docs : docs[i] = docs[j] => i = j}

InitDirect ==
    /\ EmptyStore
    /\ clock = 0
    /\ last = NoOp
    /\ notifier = IdleNotifier
    /\ deliveries = [u \in Urls |-> 0]
    /\ tz = 0
    /\ verification = NoCall
    /\ \E docs \in DirectDocs :
         pipeline = [docs |-> docs, pos |-> 0, yielded |-> <<>>,
                     pc |-> "suspended", stopped |-> FALSE, log |-> <<>>,
                     processed_articles |-> <<>>]

\* one iteration of the generator's loop; a yielded document is in the
\* consumer's hands
DirectStep ==
    /\ Resumed(pipeline)
    /\ pipeline.pos < Len(pipeline.docs)
    /\ \E questions \in SystemQuestions, provider \in PipelineProviders :
         \E scoreOf \in [Range(questions) -> StreamScores] :
            \E order \in ArgSorts([i \in DOMAIN questions |-> scoreOf[questions[i]]]) :
               LET pos == pipeline.pos + 1
                   url == pipeline.docs[pos]
               IN  \E out \in {ProcessArticle(Document(url, 1), questions, scoreOf, order,
                                              ConfiguredLlm, provider, FALSE, clock + tz)} :
                      /\ articles' = out.db.articles
                      /\ matches' = out.db.matches
                      /\ seqArticles' = out.db.seqArticles
                      /\ seqMatches' = out.db.seqMatches
                      /\ pipeline' =
                            [pipeline EXCEPT
                               !.pos = pos,
                               !.yielded = IF Yields(out.matches) THEN Append(@, url) ELSE @,
                               !.pc = IF Yields(out.matches) THEN "yielded" ELSE "running",
                               !.log = Append(@, [pos |-> pos, url |-> url,
                                                  yielded |-> Yields(out.matches),
                                                  article |-> Document(url, 1)
                                                                @@ [matches |-> out.matches],
                                                  rows |-> (seqMatches + 1)..out.db.seqMatches])]
                      /\ last' = [op |-> "process", url |-> url,
                                  similar |-> out.similar, verdicts |-> out.verdicts,
                                  saved |-> out.saved, raised |-> out.raised,
                                  provider |-> provider, calls |-> out.calls,
                                  requests |-> out.requests,
                                  yielded |-> Yields(out.matches)]
    /\ clock' = clock + 1
    /\ UNCHANGED <<verification, notifier, deliveries, tz>>

\* the body of the consumer's loop: processed_articles.append(article),
\* db.save_article(article)
DirectSave ==
    /\ pipeline.pc = "yielded"
    /\ LET k == Len(pipeline.log)
           article == pipeline.log[k].article
       IN  \E out \in {SaveOutcome(article, clock + tz)} :
              /\ articles' = out.db.articles
              /\ matches' = out.db.matches
              /\ seqArticles' = out.db.seqArticles
              /\ seqMatches' = out.db.seqMatches
              /\ pipeline' =
                    [pipeline EXCEPT
                       !.pc = "suspended",
                       !.processed_articles = Append(@, article.url),
                       !.log[k].rows = @ \cup ((seqMatches + 1)..out.db.seqMatches)]
              /\ last' = [op |-> "save", article |-> article,
                          existed |-> UrlExists(article.url),
                          raised |-> out.raised, id |-> out.id]
    /\ clock' = clock + 1
    /\ UNCHANGED <<verification, notifier, deliveries, tz>>

NextDirect == Pull \/ DirectStep \/ DirectSave \/ StreamEnd

SpecDirect == InitDirect /\ [][NextDirect]_vars

\* the match rows the run wrote for the k-th document and the question
RowsOfPair(k, question) ==
    {i \in DOMAIN matches :
        matches[i].id \in pipeline.log[k].rows /\ matches[i].question = question}

\* C38 (as claimed): one run of process_articles_directly over documents
\* not stored before leaves, for each verified pair of a document and a
\* question, exactly one row in the matches table.
Cex_C38_OneRowPerPair ==
    \A k \in DOMAIN pipeline.log :
        (pipeline.log[k].yielded /\ (k < Len(pipeline.log) \/ pipeline.pc # "yielded")) =>
            \A j \in DOMAIN pipeline.log[k].article.matches :
                Cardinality(RowsOfPair(k, pipeline.log[k].article.matches[j].question)) = 1

\* C39: in every state of a pipeline run, whose store may refuse writes,
\* every article row has at least one match row attached: a match row
\* whose article_id is the article's id.
Thm_C39_ArticleHasMatch ==
    \A i \in DOMAIN articles :
        \E k \in DOMAIN matches : matches[k].article_id = articles[i].id

\* one article is stored with its match, and the save of a later document
\* with verified matches was refused
Wit_C39 ==
    /\ Len(articles) = 1
    /\ Len(matches) >= 1
    /\ Processed /\ last.raised /\ Relevant(last) # {}
    /\ ~UrlExists(last.url)

\* C40 (as claimed): every similarity_score the pipeline stored is greater
\* than the similarity threshold and at most 1.0.
Cex_C40_StoredAboveThreshold ==
    \A k \in DOMAIN matches :
        /\ matches[k].similarity_score > EmbeddingSimilarityThreshold
        /\ matches[k].similarity_score <= 1000

\* C40, the part that holds: every stored score is at least the threshold
\* and at most 1.0, and the candidate it was written from scored above the
\* threshold.
Aux_C40_StoredAtLeastThreshold ==
    /\ \A k \in DOMAIN matches :
          /\ matches[k].similarity_score >= EmbeddingSimilarityThreshold
          /\ matches[k].similarity_score <= 1000
    /\ Processed =>
          \A i \in DOMAIN last.similar :
             last.similar[i].score > EmbeddingSimilarityThreshold
====
